---- MODULE Spec2Model ----
(***************************************************************************)
(* Thought extraction pipeline of orin-app: the resurface-time helpers     *)
(* (parseResurfaceTiming, getTaskResurfaceSchedule), the extraction,       *)
(* transcription and embedding clients, and the orchestrators              *)
(* processMindDump / processMindDumpText of HomeScreen.tsx.                *)
(*                                                                         *)
(* Time is counted in whole hours: a Date is a day number (days since      *)
(* 1970-01-01, a Thursday) and an hour of the day; the local zone is UTC.  *)
(* A string is a sequence of tokens [w, n]: w is the word (kept with its   *)
(* case), n the number a digit run or a date/time field denotes.           *)
(***************************************************************************)
EXTENDS Integers, Sequences, FiniteSets, TLC

\* ---------------------------------------------------------------- bounds
\* Days the deadlines and the clock of the schedule helper range over.
MaxDay == 3
\* Longest list of thoughts a model response carries.
MaxItems == 2
\* The longest list of subtask stubs an item carries.
MaxSubtasks == 2
\* Collaborator failures (an error value, an exception, a null embedding) one
\* run meets at most.
MaxFailures == 1

\* Events the calendar holds at most in the window getNextFreeTime looks at.
MaxEvents == 2

\* ------------------------------------------------------- program constants
\* ECMAScript Date range: 100,000,000 days either side of the epoch.
MaxDateDays == 100000000
\* getDay() of 1970-01-01 (Thursday).
EpochWeekday == 4

\* ---------------------------------------------------------------- strings
Tok(w, n) == [w |-> w, n |-> n]
Word(w) == Tok(w, 0)
\* A run of digits, \d+ of the regular expressions; parseInt gives n.
Num(n) == Tok("#", n)
\* JavaScript null and undefined where a string is expected.
NullStr == <<Word("<null>")>>
Undefined == <<Word("<undefined>")>>
\* What a throw inside a helper hands to the enclosing catch.
Thrown == <<Word("<exception>")>>

IsString(s) == s # NullStr /\ s # Undefined
Truthy(s) == IsString(s) /\ s # <<>>

\* String.prototype.toLowerCase, word by word.
LowerWord(w) ==
  CASE w = "Tomorrow" -> "tomorrow"
    [] w = "Morning" -> "morning"
    [] w = "Monday" -> "monday"
    [] w = "Next" -> "next"
    [] w = "In" -> "in"
    [] OTHER -> w
toLowerCase(s) == [k \in 1..Len(s) |-> Tok(LowerWord(s[k].w), s[k].n)]

\* String.prototype.includes for a phrase of whole words.
includes(s, pat) ==
  \E k \in 1..(Len(s) - Len(pat) + 1) : SubSeq(s, k, k + Len(pat) - 1) = pat

\* /^\d{4}-\d{2}-\d{2}T/ : the string opens with four digits, two digits, two
\* digits and a T. "date" is such a prefix naming a calendar day (n), "baddate"
\* one whose digits name none (month 13, day 45).
\* Variant: the pattern is closed after the day, /^\d{4}-\d{2}-\d{2}$/.
MatchesIsoPrefix_DateOnly(s) == Len(s) = 1 /\ s[1].w \in {"date", "baddate"}
MatchesIsoPrefix(s) == Len(s) >= 1 /\ s[1].w \in {"date", "baddate"}

\* What follows the T of a complete ISO 8601 timestamp: hh:mm:ss.sssZ.
WellFormedISO(s) ==
  /\ IsString(s)
  /\ Len(s) = 2
  /\ s[1].w = "date"
  /\ s[2].w = "time"
  /\ s[2].n \in 0..23

\* ------------------------------------------------------------------ dates
MkDate(day, hour) == [valid |-> TRUE, day |-> day, hour |-> hour]
InvalidDate == [valid |-> FALSE, day |-> 0, hour |-> 0]

\* TimeClip: a time value outside the Date range is NaN. The range ends at
\* 00:00 of day MaxDateDays.
TimeClip(d) ==
  IF /\ d.valid
     /\ d.day >= -MaxDateDays
     /\ (d.day < MaxDateDays \/ (d.day = MaxDateDays /\ d.hour = 0))
    THEN d
    ELSE InvalidDate

\* new Date(isoString)
NewDate(s) ==
  IF WellFormedISO(s) THEN TimeClip(MkDate(s[1].n, s[2].n)) ELSE InvalidDate

\* d.setDate(d.getDate() + k)
AddDays(d, k) == IF d.valid THEN TimeClip([d EXCEPT !.day = @ + k]) ELSE d
\* d.setHours(h, 0, 0, 0)
SetHours(d, h) == IF d.valid THEN TimeClip([d EXCEPT !.hour = h]) ELSE d
\* d.setHours(d.getHours() + k)
AddHours(d, k) ==
  IF d.valid
    THEN TimeClip(MkDate(d.day + ((d.hour + k) \div 24), (d.hour + k) % 24))
    ELSE d
\* d.getDay()
getDay(d) == (d.day + EpochWeekday) % 7

\* a > b on Dates (false when either is NaN)
After(a, b) ==
  /\ a.valid
  /\ b.valid
  /\ (a.day > b.day \/ (a.day = b.day /\ a.hour > b.hour))

\* Date.prototype.toISOString: throws a RangeError on an invalid Date.
toISOString(d) ==
  IF d.valid THEN <<Tok("date", d.day), Tok("time", d.hour)>> ELSE Thrown

\* ------------------------------------------------- getTaskResurfaceSchedule
twoDaysBefore(deadlineDate) == SetHours(AddDays(deadlineDate, -2), 9)
dayOf(deadlineDate) == SetHours(deadlineDate, 9)
twoHoursBefore(deadlineDate) == AddHours(deadlineDate, -2)

\* schedule.push(x.toISOString()) when x > now
PushIfAfter(schedule, x, now) ==
  IF After(x, now) THEN Append(schedule, toISOString(x)) ELSE schedule

getTaskResurfaceSchedule(deadline, now) ==
  LET deadlineDate == NewDate(deadline)
      s1 == PushIfAfter(<<>>, twoDaysBefore(deadlineDate), now)
      s2 == PushIfAfter(s1, dayOf(deadlineDate), now)
  IN  PushIfAfter(s2, twoHoursBefore(deadlineDate), now)

\* ----------------------------------------------------- parseResurfaceTiming
\* The regular expressions, on words: "in " is matched wherever a word ends in
\* "in", "days?" and "hours?" wherever a word starts with "day" or "hour".
EndsWithIn(w) == w \in {"in", "within"}
StartsWithDay(w) == w \in {"day", "days"}
StartsWithHour(w) == w \in {"hour", "hours"}

\* lower.match(/in (\d+) days?/) and lower.match(/in (\d+) hours?/): the places
\* where the pattern matches.
\* Variant: the day count must not be zero, /in ([1-9]\d*) days?/.
daysMatch_Positive(lower) ==
  {k \in 1..(Len(lower) - 2) :
     /\ EndsWithIn(lower[k].w)
     /\ lower[k + 1].w = "#"
     /\ lower[k + 1].n > 0
     /\ StartsWithDay(lower[k + 2].w)}
daysMatch(lower) ==
  {k \in 1..(Len(lower) - 2) :
     EndsWithIn(lower[k].w) /\ lower[k + 1].w = "#" /\ StartsWithDay(lower[k + 2].w)}
hoursMatch(lower) ==
  {k \in 1..(Len(lower) - 2) :
     EndsWithIn(lower[k].w) /\ lower[k + 1].w = "#" /\ StartsWithHour(lower[k + 2].w)}
\* lower.match(/(\d+) days? before/)
daysBeforeMatch(lower) ==
  {k \in 1..(Len(lower) - 2) :
     lower[k].w = "#" /\ StartsWithDay(lower[k + 1].w) /\ lower[k + 2].w = "before"}

\* A match is the leftmost one.
FirstOf(S) == CHOOSE k \in S : \A l \in S : k <= l
\* parseInt(match[1])
parseInt(tok) == tok.n

daysOfWeek ==
  <<"sunday", "monday", "tuesday", "wednesday", "thursday", "friday", "saturday">>
\* The indices i (0-based) with lower.includes(daysOfWeek[i]).
WeekdaysIn(lower) ==
  {i \in 0..6 : \E k \in 1..Len(lower) : lower[k].w = daysOfWeek[i + 1]}

\* Variant: only a negative difference is moved to the next week.
NextWeekday_SameDay(now, targetDay) ==
  LET diff == targetDay - getDay(now)
      daysUntil == IF diff < 0 THEN diff + 7 ELSE diff
  IN  toISOString(SetHours(AddDays(now, daysUntil), 9))

\* Day of week (next occurrence), lines 99-110.
NextWeekday(now, targetDay) ==
  LET diff == targetDay - getDay(now)
      daysUntil == IF diff <= 0 THEN diff + 7 ELSE diff
  IN  toISOString(SetHours(AddDays(now, daysUntil), 9))

\* now.setDate(+k); setHours(h, 0, 0, 0); toISOString()
DayAt(now, k, h) == toISOString(SetHours(AddDays(now, k), h))

\* Variant: the "in N hours" test is made before the "in N days" test.
parseResurfaceTimingBody_HoursFirst(timing, deadline, now) ==
  IF ~IsString(timing) THEN Thrown
  ELSE IF MatchesIsoPrefix(timing) THEN timing
  ELSE
    LET lower == toLowerCase(timing)
    IN
    IF includes(lower, <<Word("tomorrow"), Word("morning")>>) THEN DayAt(now, 1, 9)
    ELSE IF includes(lower, <<Word("tomorrow"), Word("afternoon")>>) THEN DayAt(now, 1, 14)
    ELSE IF includes(lower, <<Word("tomorrow"), Word("evening")>>) THEN DayAt(now, 1, 18)
    ELSE IF includes(lower, <<Word("tomorrow")>>) THEN DayAt(now, 1, 9)
    ELSE IF includes(lower, <<Word("next"), Word("week")>>) THEN DayAt(now, 7, 9)
    ELSE IF hoursMatch(lower) # {}
      THEN toISOString(AddHours(now, parseInt(lower[FirstOf(hoursMatch(lower)) + 1])))
    ELSE IF daysMatch(lower) # {}
      THEN DayAt(now, parseInt(lower[FirstOf(daysMatch(lower)) + 1]), 9)
    ELSE IF /\ Truthy(deadline)
            /\ includes(lower, <<Word("before"), Word("deadline")>>)
            /\ daysBeforeMatch(lower) # {}
      THEN toISOString(SetHours(
             AddDays(NewDate(deadline),
                     -parseInt(lower[FirstOf(daysBeforeMatch(lower))])), 9))
    ELSE IF WeekdaysIn(lower) # {}
      THEN NextWeekday(now, FirstOf(WeekdaysIn(lower)))
    ELSE DayAt(now, 1, 9)

\* The body of the try block; Thrown when a statement of it throws.
parseResurfaceTimingBody(timing, deadline, now) ==
  IF ~IsString(timing) THEN Thrown
  ELSE IF MatchesIsoPrefix(timing) THEN timing
  ELSE
    LET lower == toLowerCase(timing)
    IN
    IF includes(lower, <<Word("tomorrow"), Word("morning")>>) THEN DayAt(now, 1, 9)
    ELSE IF includes(lower, <<Word("tomorrow"), Word("afternoon")>>) THEN DayAt(now, 1, 14)
    ELSE IF includes(lower, <<Word("tomorrow"), Word("evening")>>) THEN DayAt(now, 1, 18)
    ELSE IF includes(lower, <<Word("tomorrow")>>) THEN DayAt(now, 1, 9)
    ELSE IF includes(lower, <<Word("next"), Word("week")>>) THEN DayAt(now, 7, 9)
    ELSE IF daysMatch(lower) # {}
      THEN DayAt(now, parseInt(lower[FirstOf(daysMatch(lower)) + 1]), 9)
    ELSE IF hoursMatch(lower) # {}
      THEN toISOString(AddHours(now, parseInt(lower[FirstOf(hoursMatch(lower)) + 1])))
    ELSE IF /\ Truthy(deadline)
            /\ includes(lower, <<Word("before"), Word("deadline")>>)
            /\ daysBeforeMatch(lower) # {}
      THEN toISOString(SetHours(
             AddDays(NewDate(deadline),
                     -parseInt(lower[FirstOf(daysBeforeMatch(lower))])), 9))
    ELSE IF WeekdaysIn(lower) # {}
      THEN NextWeekday(now, FirstOf(WeekdaysIn(lower)))
    ELSE DayAt(now, 1, 9)

\* Variant: the body runs outside a try block.
parseResurfaceTiming_NoCatch(timing, deadline, now) ==
  parseResurfaceTimingBody(timing, deadline, now)

\* try { ... } catch (error) { return null }
parseResurfaceTiming(timing, deadline, now) ==
  LET r == parseResurfaceTimingBody(timing, deadline, now)
  IN  IF r = Thrown THEN NullStr ELSE r

\* -------------------------------------------------------------- the clients
\* transcribeAudio: null without an API key, on a fetch error, on a non-2xx
\* response and on an empty text; the text otherwise.
TranscriptionOutcomes == {"no_key", "network_error", "non_2xx", "empty_text", "ok"}
transcribeAudio(outcome) == IF outcome = "ok" THEN "transcript" ELSE "<null>"

\* generateEmbedding: null without an API key and on an API error.
EmbeddingOutcomes == {"no_key", "api_error", "ok"}
generateEmbedding(outcome) == IF outcome = "ok" THEN "vector" ELSE "<null>"

\* analyzeWithOpenAI: what the completion call gives back, and what the client
\* makes of it. A result is [isNull, thoughts].
ExtractionFailures ==
  {"no_key", "api_error", "empty_content", "invalid_json", "thoughts_missing",
   "thoughts_not_a_list"}
NullAnalysis == [isNull |-> TRUE, thoughts |-> <<>>]
analyzeWithOpenAI(response) ==
  IF response.kind \in ExtractionFailures
    THEN NullAnalysis
    ELSE [isNull |-> FALSE, thoughts |-> response.thoughts]

\* !analyzed || !analyzed.thoughts || analyzed.thoughts.length === 0
NoThoughts(analyzed) == analyzed.isNull \/ Len(analyzed.thoughts) = 0

\* ------------------------------------------------------------------ state
VARIABLES
  session,     \* the user supabase.auth.getUser() returns, "<null>" signed out
  dumps,       \* mind_dumps rows, by id
  thoughts,    \* thoughts rows
  relations,   \* thought_relations rows
  vectors,     \* thought_vectors rows
  runs,        \* per dump, the processMindDump / processMindDumpText call
  schedArgs,   \* the deadline and the clock of a getTaskResurfaceSchedule call
  schedRet,    \* what the call returned
  schedDone,   \* whether the call was made
  clock,       \* the wall clock new Date() reads
  resArgs,     \* the timing and the deadline parseResurfaceTiming is called with
  resCalls,    \* the calls made with them: the clock each read, what it returned
  confArgs,    \* the thought calculateConfidence is called with
  confRet,     \* the score it returned
  confDone,    \* whether the call was made
  freeArgs,    \* the calendar, the clock and the argument of a getNextFreeTime call
  freeRet,     \* the instant it returned
  freeDone,    \* whether the call was made
  sms,         \* the sms-webhook request being served
  replies      \* what the collaborators answer to the two runs that are compared

pvars == <<session, dumps, thoughts, relations, vectors, runs>>
rvars == <<clock, resArgs, resCalls>>
\* The variables of the helpers checked on their own.
cvars == <<confArgs, confRet, confDone>>
fvars == <<freeArgs, freeRet, freeDone>>
svars == <<schedArgs, schedRet, schedDone, clock, resArgs, resCalls,
           confArgs, confRet, confDone, freeArgs, freeRet, freeDone, sms, replies>>
vars == <<session, dumps, thoughts, relations, vectors, runs,
          schedArgs, schedRet, schedDone, clock, resArgs, resCalls,
          confArgs, confRet, confDone, freeArgs, freeRet, freeDone, sms, replies>>

\* ----------------------------------------------------------------- inputs
Users == {"u1"}
DumpIds == {"d1"}
ModelVersion == "gpt-4o-mini-v1"
ThoughtTypes == {"task", "idea", "reminder", "reflection", "question", "event"}

\* Outcomes of a call to the storage collaborator: a row, an error value, or
\* an exception.
StorageOutcomes == {"ok", "error", "throw"}

Stub(text, order) == [text |-> text, order |-> order]
\* subtasks: null
NoSubtasks == <<Stub("<null>", 0)>>
Steps == [k \in 1..MaxSubtasks |-> Stub("step", k)]
FirstStep == <<Stub("step", 1)>>

ISO(day, hour) == <<Tok("date", day), Tok("time", hour)>>

\* The items a model response is drawn from.
CallMom ==
  [thought_text |-> "call mom", type |-> "task", importance |-> "high",
   sentiment |-> "neutral",
   deadline |-> NullStr,
   resurface_timing |-> <<Tok("date", 3), Word("ish")>>,
   subtasks |-> NoSubtasks]
PlanWedding ==
  [thought_text |-> "plan wedding", type |-> "task", importance |-> "medium",
   sentiment |-> "anxious",
   deadline |-> ISO(10, 8),
   resurface_timing |-> <<Num(2), Word("days"), Word("before"), Word("deadline")>>,
   subtasks |-> FirstStep]
TakePills ==
  [thought_text |-> "take pills", type |-> "reminder", importance |-> "high",
   sentiment |-> "neutral",
   deadline |-> NullStr,
   resurface_timing |-> Undefined,
   subtasks |-> NoSubtasks]
Banana ==
  [thought_text |-> "hmm", type |-> "banana", importance |-> "low",
   sentiment |-> "positive",
   deadline |-> <<Word("someday")>>,
   resurface_timing |-> <<Num(2), Word("days"), Word("before"), Word("deadline")>>,
   subtasks |-> Steps]
Items == {CallMom, PlanWedding, TakePills, Banana}

RECURSIVE SeqsUpTo(_, _)
SeqsUpTo(S, n) ==
  IF n = 0 THEN {<<>>}
  ELSE LET shorter == SeqsUpTo(S, n - 1)
       IN  shorter \cup {Append(q, x) : q \in {r \in shorter : Len(r) = n - 1}, x \in S}

\* What the completion call can give back.
Responses ==
  {[kind |-> k, thoughts |-> <<>>] : k \in ExtractionFailures}
    \cup {[kind |-> "ok", thoughts |-> q] : q \in SeqsUpTo(Items, MaxItems)}

\* The wall clock the resolver reads while a dump is processed.
PipelineNows == {MkDate(2, 10)}

\* ---------------------------------------------------------- processMindDump
IdleRun ==
  [pc |-> "idle", path |-> "none", transcript |-> "<none>",
   extraction |-> "none", analyzed |-> NullAnalysis,
   currentUser |-> "<null>", i |-> 0, j |-> 0,
   resolved |-> <<>>, inserted |-> <<>>, embedded |-> {}, writes |-> <<>>,
   embNull |-> {}, failures |-> 0,
   markCall |-> "none", markResult |-> "none",
   feedback |-> <<>>,
   end |-> "running", escaped |-> FALSE]

ItemOf(r) == r.analyzed.thoughts[r.i]
\* Variant: the length test is off by one.
HasSubtasks_OffByOne(thought) == thought.subtasks # NoSubtasks /\ Len(thought.subtasks) > 1

\* thought.subtasks && thought.subtasks.length > 0
HasSubtasks(thought) == thought.subtasks # NoSubtasks /\ Len(thought.subtasks) > 0

Finish(r, how) == [r EXCEPT !.pc = "done", !.end = how]

\* for (const thought of analyzed.thoughts): the next item, or the statements
\* after the loop.
NextItem(r) ==
  IF r.i < Len(r.analyzed.thoughts)
    THEN [r EXCEPT !.pc = "insert_thought", !.i = @ + 1, !.j = 0]
    ELSE [r EXCEPT !.pc = "mark_processed", !.j = 0]

\* for (const subtask of thought.subtasks): the next stub, or Step 5.
NextSubtask(r) ==
  IF r.j < Len(ItemOf(r).subtasks)
    THEN [r EXCEPT !.pc = "insert_subtask", !.j = @ + 1]
    ELSE [r EXCEPT !.pc = "embed"]

\* Variant: only the loop bodies are inside a try block.
TryBlockOf_LoopsOnly(pc) ==
  CASE pc \in {"insert_subtask", "insert_relation"} -> "subtask"
    [] pc \in {"insert_thought", "embed", "insert_vector"} -> "item"
    [] OTHER -> "none"

\* The innermost try block around each await.
TryBlockOf(pc) ==
  CASE pc \in {"insert_subtask", "insert_relation"} -> "subtask"
    [] pc \in {"insert_thought", "embed", "insert_vector"} -> "item"
    [] OTHER -> "outer"

\* An exception thrown at r.pc lands in the catch of its try block: the subtask
\* catch goes on with the next stub, the item catch with the next item, the
\* outer catch logs and returns.
Raise(r) ==
  LET f == [r EXCEPT !.failures = @ + 1]
  IN  CASE TryBlockOf(r.pc) = "subtask" -> NextSubtask(f)
        [] TryBlockOf(r.pc) = "item" -> NextItem(f)
        [] TryBlockOf(r.pc) = "outer" -> Finish(f, "caught")
        [] OTHER -> [Finish(f, "escaped") EXCEPT !.escaped = TRUE]

Step(d, r) == runs' = [runs EXCEPT ![d] = r]

\* The calls a run has issued to the store, in order: the table, the
\* operation and the row or the fields it was given.
Issue(r, table, op, row) ==
  [r EXCEPT !.writes = Append(@, [table |-> table, op |-> op, row |-> row])]

\* The collaborator failures a run has met so far are counted, and a step may
\* fail only while the count is below MaxFailures.
Failing(r, outcome) == [r EXCEPT !.failures = IF outcome = "ok" THEN @ ELSE @ + 1]
MayFail(r, outcome) == outcome = "ok" \/ r.failures < MaxFailures

\* Variant: the run goes on with the transcript it has.
OnNoTranscript_GoOn(r) == [r EXCEPT !.pc = "update_raw"]

\* if (!transcript) return
OnNoTranscript(r) == Finish(r, "transcription_failed")

\* Variant: the branch returns without the update, as the transcript branch does.
OnNoThoughts_Return(r) == Finish(r, "extraction_failed")

\* if (!analyzed || ...) { await update({processed: true}); return }
OnNoThoughts(r) == [r EXCEPT !.pc = "mark_unanalyzed"]

\* if (!currentUser) return
OnNoUser(r) == Finish(r, "no_user")

\* Variant: the error of the insert is logged and the item goes on.
OnThoughtError_GoOn(r) == [r EXCEPT !.failures = @ + 1, !.pc = "embed"]

\* if (thoughtError) continue
OnThoughtError(r) == NextItem([r EXCEPT !.failures = @ + 1])

\* Variant: the relation is written whatever the insert of the child returned.
OnSubtaskError_Relate(r) == [r EXCEPT !.failures = @ + 1, !.pc = "insert_relation"]

\* if (!subtaskError && subtaskThought) {...}: otherwise on to the next stub
OnSubtaskError(r) == NextSubtask([r EXCEPT !.failures = @ + 1])

\* Variant: a null embedding ends the run.
OnEmbeddingNull_Return(r) == Finish([r EXCEPT !.embNull = @ \cup {r.i}], "embedding_failed")

\* embedding null: the insert of the vector is skipped
OnEmbeddingNull(r) == NextItem([r EXCEPT !.embNull = @ \cup {r.i}])

\* ------------------------------------------------------- session and capture
SignOut ==
  /\ session # "<null>"
  /\ session' = "<null>"
  /\ UNCHANGED <<dumps, thoughts, relations, vectors, runs>>
  /\ UNCHANGED svars

SignIn(u) ==
  /\ session = "<null>"
  /\ session' = u
  /\ UNCHANGED <<dumps, thoughts, relations, vectors, runs>>
  /\ UNCHANGED svars

NewDump(user, source, text) ==
  [user_id |-> user, source |-> source, raw_text |-> text,
   processed |-> FALSE, model_version |-> "<null>"]

\* What the user is shown and what is started, in the order of the statements:
\* the row is inserted, the toast is set, the processing call is made.
CaptureFeedback == <<"record_created", "confirmation", "stage_started">>

\* saveVoiceNote: upload, insert the mind_dumps row, start processMindDump.
\* Nothing is created when the user is signed out, the upload fails or the
\* insert returns an error.
saveVoiceNote(d, uploaded, inserted) ==
  /\ d \notin DOMAIN dumps
  /\ IF session # "<null>" /\ uploaded /\ inserted = "ok"
       THEN /\ dumps' = [x \in DOMAIN dumps \cup {d} |->
                           IF x = d THEN NewDump(session, "voice", "[Transcribing...]")
                                    ELSE dumps[x]]
            /\ Step(d, [IdleRun EXCEPT !.pc = "transcribe", !.path = "voice",
                                       !.feedback = CaptureFeedback])
       ELSE UNCHANGED <<dumps, runs>>
  /\ UNCHANGED <<session, thoughts, relations, vectors>>
  /\ UNCHANGED svars

\* handleSaveJournal: insert the mind_dumps row, start processMindDumpText.
handleSaveJournal(d, inserted) ==
  /\ d \notin DOMAIN dumps
  /\ IF session # "<null>" /\ inserted = "ok"
       THEN /\ dumps' = [x \in DOMAIN dumps \cup {d} |->
                           IF x = d THEN NewDump(session, "text", "journal")
                                    ELSE dumps[x]]
            /\ Step(d, [IdleRun EXCEPT !.pc = "analyze", !.path = "text",
                                       !.transcript = "journal",
                                       !.feedback = CaptureFeedback])
       ELSE UNCHANGED <<dumps, runs>>
  /\ UNCHANGED <<session, thoughts, relations, vectors>>
  /\ UNCHANGED svars

\* ------------------------------------------------------ the pipeline steps
\* Each action is one await of processMindDump (processMindDumpText from
\* "analyze" on) with the statements that follow it up to the next await.

\* Step 1: const transcript = await transcribeAudio(audioUri)
Transcribe(d, outcome) ==
  LET r == runs[d]
      t == transcribeAudio(outcome)
  IN  /\ r.pc = "transcribe"
      /\ IF t = "<null>"
           THEN Step(d, OnNoTranscript([r EXCEPT !.transcript = t]))
           ELSE Step(d, [r EXCEPT !.transcript = t, !.pc = "update_raw"])
      /\ UNCHANGED <<session, dumps, thoughts, relations, vectors>>
      /\ UNCHANGED svars

\* await supabase.from('mind_dumps').update({ raw_text: transcript })
UpdateRawText(d, outcome) ==
  LET r == Issue(runs[d], "mind_dumps", "update", [raw_text |-> runs[d].transcript])
      f == Failing(r, outcome)
  IN  /\ r.pc = "update_raw"
      /\ MayFail(r, outcome)
      /\ dumps' = IF outcome = "ok"
                    THEN [dumps EXCEPT ![d].raw_text = r.transcript]
                    ELSE dumps
      /\ IF outcome = "throw"
           THEN Step(d, Raise(r))
           ELSE Step(d, [f EXCEPT !.pc = "analyze"])
      /\ UNCHANGED <<session, thoughts, relations, vectors>>
      /\ UNCHANGED svars

\* Step 2: const analyzed = await analyzeWithOpenAI(transcript, userTimezone)
Analyze(d, response) ==
  LET r == runs[d]
      a == analyzeWithOpenAI(response)
      r1 == [r EXCEPT !.analyzed = a, !.extraction = response.kind]
  IN  /\ r.pc = "analyze"
      /\ IF NoThoughts(a)
           THEN Step(d, OnNoThoughts(r1))
           ELSE Step(d, [r1 EXCEPT !.pc = "get_user"])
      /\ UNCHANGED <<session, dumps, thoughts, relations, vectors>>
      /\ UNCHANGED svars

\* await supabase.from('mind_dumps').update({ processed: true }); return
MarkUnanalyzed(d, outcome) ==
  LET r == Issue(runs[d], "mind_dumps", "update", [processed |-> TRUE])
      r1 == [r EXCEPT !.markCall = "processed", !.markResult = outcome]
  IN  /\ r.pc = "mark_unanalyzed"
      /\ MayFail(r, outcome)
      /\ dumps' = IF outcome = "ok"
                    THEN [dumps EXCEPT ![d].processed = TRUE]
                    ELSE dumps
      /\ IF outcome = "throw"
           THEN Step(d, Raise(r1))
           ELSE Step(d, Finish(Failing(r1, outcome), "extraction_failed"))
      /\ UNCHANGED <<session, thoughts, relations, vectors>>
      /\ UNCHANGED svars

\* const { data: { user: currentUser } } = await supabase.auth.getUser()
GetUser(d, outcome) ==
  LET r == runs[d]
  IN  /\ r.pc = "get_user"
      /\ MayFail(r, outcome)
      /\ IF outcome = "throw"
           THEN Step(d, Raise(r))
           ELSE IF session = "<null>"
             THEN Step(d, OnNoUser(r))
             ELSE Step(d, NextItem([r EXCEPT !.currentUser = session, !.i = 0]))
      /\ UNCHANGED <<session, dumps, thoughts, relations, vectors>>
      /\ UNCHANGED svars

RowId(d, i, j) == [dump |-> d, item |-> i, sub |-> j]

\* type: thought.type
PersistedType(thought) == thought.type

\* The row of lines 238-252.
ThoughtRow(d, r, thought, now) ==
  [id |-> RowId(d, r.i, 0), dump_id |-> d, user_id |-> r.currentUser,
   thought_text |-> thought.thought_text,
   type |-> PersistedType(thought),
   importance |-> thought.importance,
   sentiment |-> thought.sentiment,
   deadline |-> thought.deadline,
   resurface_at |-> parseResurfaceTiming(thought.resurface_timing, thought.deadline, now),
   subtasks |-> thought.subtasks]

\* Variant: the child takes the type and the sentiment of its parent.
SubtaskRow_Inherit(d, r, thought, subtask) ==
  [id |-> RowId(d, r.i, r.j), dump_id |-> d, user_id |-> r.currentUser,
   thought_text |-> subtask.text,
   type |-> thought.type,
   importance |-> thought.importance,
   sentiment |-> thought.sentiment,
   deadline |-> thought.deadline,
   resurface_at |-> NullStr,
   subtasks |-> NoSubtasks]

\* The row of lines 268-278.
SubtaskRow(d, r, thought, subtask) ==
  [id |-> RowId(d, r.i, r.j), dump_id |-> d, user_id |-> r.currentUser,
   thought_text |-> subtask.text,
   type |-> "task",
   importance |-> thought.importance,
   sentiment |-> "neutral",
   deadline |-> thought.deadline,
   resurface_at |-> NullStr,
   subtasks |-> NoSubtasks]

\* Step 3: await supabase.from('thoughts').insert({...}).select().single()
InsertThought(d, outcome, now) ==
  LET thought == ItemOf(runs[d])
      resurfaceAt == parseResurfaceTiming(thought.resurface_timing, thought.deadline, now)
      r0 == [runs[d] EXCEPT
               !.resolved = Append(@, [now |-> now, ret |-> resurfaceAt]),
               !.inserted = Append(@, outcome = "ok" /\ resurfaceAt # Thrown)]
      r == IF resurfaceAt = Thrown
             THEN r0
             ELSE Issue(r0, "thoughts", "insert", ThoughtRow(d, r0, thought, now))
  IN  /\ runs[d].pc = "insert_thought"
      /\ MayFail(r, outcome)
      /\ thoughts' = IF outcome = "ok" /\ resurfaceAt # Thrown
                       THEN thoughts \cup {ThoughtRow(d, r, thought, now)}
                       ELSE thoughts
      /\ CASE resurfaceAt = Thrown -> Step(d, Raise(r))
           [] outcome = "throw" -> Step(d, Raise(r))
           [] outcome = "error" -> Step(d, OnThoughtError(r))
           [] OTHER ->
                IF HasSubtasks(thought)
                  THEN Step(d, NextSubtask([r EXCEPT !.j = 0]))
                  ELSE Step(d, [r EXCEPT !.pc = "embed"])
      /\ UNCHANGED <<session, dumps, relations, vectors>>
      /\ UNCHANGED svars

\* Step 4: the insert of a subtask's thought
InsertSubtask(d, outcome) ==
  LET thought == ItemOf(runs[d])
      r == Issue(runs[d], "thoughts", "insert",
                 SubtaskRow(d, runs[d], thought, thought.subtasks[runs[d].j]))
  IN  /\ runs[d].pc = "insert_subtask"
      /\ MayFail(r, outcome)
      /\ thoughts' = IF outcome = "ok"
                       THEN thoughts \cup {SubtaskRow(d, r, thought, thought.subtasks[r.j])}
                       ELSE thoughts
      /\ CASE outcome = "throw" -> Step(d, Raise(r))
           [] outcome = "error" -> Step(d, OnSubtaskError(r))
           [] OTHER -> Step(d, [r EXCEPT !.pc = "insert_relation"])
      /\ UNCHANGED <<session, dumps, relations, vectors>>
      /\ UNCHANGED svars

\* The row of lines 284-288.
RelationRow(d, r) ==
  [parent_thought_id |-> RowId(d, r.i, 0),
   child_thought_id |-> RowId(d, r.i, r.j),
   relation |-> "subtask"]

\* await supabase.from('thought_relations').insert({...})
InsertRelation(d, outcome) ==
  LET r == Issue(runs[d], "thought_relations", "insert", RelationRow(d, runs[d]))
      f == Failing(r, outcome)
  IN  /\ r.pc = "insert_relation"
      /\ MayFail(r, outcome)
      /\ relations' = IF outcome = "ok"
                        THEN relations \cup {RelationRow(d, r)}
                        ELSE relations
      /\ IF outcome = "throw"
           THEN Step(d, Raise(r))
           ELSE Step(d, NextSubtask(f))
      /\ UNCHANGED <<session, dumps, thoughts, vectors>>
      /\ UNCHANGED svars

\* The embedding call is made for the item the loop is at.
Called(r) == [r EXCEPT !.embedded = @ \cup {r.i}]

\* Step 5: const embedding = await generateEmbedding(thought.thought_text)
Embed(d, outcome) ==
  LET r == runs[d]
  IN  /\ r.pc = "embed"
      /\ MayFail(r, outcome)
      /\ IF generateEmbedding(outcome) = "<null>"
           THEN Step(d, OnEmbeddingNull(Failing(Called(r), outcome)))
           ELSE Step(d, [Called(r) EXCEPT !.pc = "insert_vector"])
      /\ UNCHANGED <<session, dumps, thoughts, relations, vectors>>
      /\ UNCHANGED svars

\* Variant: the vector is stored for the row inserted last, child rows included.
VectorRow_LastRow(d, r) == [thought_id |-> RowId(d, r.i, r.j), embedding |-> "vector"]

\* The row of lines 299-302.
VectorRow(d, r) == [thought_id |-> RowId(d, r.i, 0), embedding |-> "vector"]

\* await supabase.from('thought_vectors').insert({...})
InsertVector(d, outcome) ==
  LET r == Issue(runs[d], "thought_vectors", "insert", VectorRow(d, runs[d]))
      f == Failing(r, outcome)
  IN  /\ r.pc = "insert_vector"
      /\ MayFail(r, outcome)
      /\ vectors' = IF outcome = "ok"
                      THEN vectors \cup {VectorRow(d, r)}
                      ELSE vectors
      /\ IF outcome = "throw"
           THEN Step(d, Raise(r))
           ELSE Step(d, NextItem(f))
      /\ UNCHANGED <<session, dumps, thoughts, relations>>
      /\ UNCHANGED svars

\* Mark as processed: update({ processed: true, model_version: 'gpt-4o-mini-v1' })
MarkProcessed(d, outcome) ==
  LET r == Issue(runs[d], "mind_dumps", "update",
                 [processed |-> TRUE, model_version |-> ModelVersion])
      r1 == [r EXCEPT !.markCall = "processed+model_version", !.markResult = outcome]
  IN  /\ r.pc = "mark_processed"
      /\ MayFail(r, outcome)
      /\ dumps' = IF outcome = "ok"
                    THEN [dumps EXCEPT ![d].processed = TRUE,
                                       ![d].model_version = ModelVersion]
                    ELSE dumps
      /\ IF outcome = "throw"
           THEN Step(d, Raise(r1))
           ELSE Step(d, Finish(Failing(r1, outcome), "completed"))
      /\ UNCHANGED <<session, thoughts, relations, vectors>>
      /\ UNCHANGED svars

\* ---------------------------------------------------------- specification
\* The pipeline is not running: nobody is signed in, nothing is stored.
PipelineIdle ==
  /\ session = "<null>"
  /\ dumps = [x \in {} |-> NewDump("u1", "text", "journal")]
  /\ thoughts = {}
  /\ relations = {}
  /\ vectors = {}
  /\ runs = [d \in DumpIds |-> IdleRun]

ScheduleIdle ==
  /\ schedArgs = [deadline |-> NullStr, now |-> MkDate(0, 0)]
  /\ schedRet = <<>>
  /\ schedDone = FALSE

ResolverIdle ==
  /\ clock = MkDate(0, 0)
  /\ resArgs = [timing |-> NullStr, deadline |-> NullStr]
  /\ resCalls = <<>>

ConfidenceIdle ==
  /\ confArgs = [type |-> "<null>", importance |-> "<null>", next_action |-> "<null>",
                 deadline |-> "<null>", category |-> "<null>"]
  /\ confRet = [hi |-> 0, mid |-> 0, lo |-> 0]
  /\ confDone = FALSE

\* No text message is being served.
IdleSms ==
  [pc |-> "idle", profile |-> "<null>", question |-> FALSE,
   analyzed |-> NullAnalysis, i |-> 0, j |-> 0, failures |-> 0,
   feedback |-> <<>>, status |-> 0]
SmsIdle == sms = IdleSms

CalendarIdle ==
  /\ freeArgs = [granted |-> FALSE, fetch |-> "ok", events |-> <<>>, now |-> 0,
                 minDurationMinutes |-> 15]
  /\ freeRet = 0
  /\ freeDone = FALSE

\* No two runs are being compared.
NoFailure == [pc |-> "none", i |-> 0, j |-> 0, how |-> "ok"]
NoReplies == [response |-> [kind |-> "ok", thoughts |-> <<>>], fail |-> NoFailure]
PathsIdle == replies = NoReplies

Init ==
  /\ session \in Users \cup {"<null>"}
  /\ dumps = [x \in {} |-> NewDump("u1", "text", "journal")]
  /\ thoughts = {}
  /\ relations = {}
  /\ vectors = {}
  /\ runs = [d \in DumpIds |-> IdleRun]
  /\ ScheduleIdle
  /\ ResolverIdle
  /\ ConfidenceIdle
  /\ CalendarIdle
  /\ SmsIdle
  /\ PathsIdle

Next ==
  \/ SignOut
  \/ \E u \in Users : SignIn(u)
  \/ \E d \in DumpIds, uploaded \in BOOLEAN, inserted \in {"ok", "error"} :
       saveVoiceNote(d, uploaded, inserted)
  \/ \E d \in DumpIds, inserted \in {"ok", "error"} : handleSaveJournal(d, inserted)
  \/ \E d \in DumpIds, outcome \in TranscriptionOutcomes : Transcribe(d, outcome)
  \/ \E d \in DumpIds, outcome \in StorageOutcomes : UpdateRawText(d, outcome)
  \/ \E d \in DumpIds, response \in Responses : Analyze(d, response)
  \/ \E d \in DumpIds, outcome \in StorageOutcomes : MarkUnanalyzed(d, outcome)
  \/ \E d \in DumpIds, outcome \in {"ok", "throw"} : GetUser(d, outcome)
  \/ \E d \in DumpIds, outcome \in StorageOutcomes, now \in PipelineNows :
       InsertThought(d, outcome, now)
  \/ \E d \in DumpIds, outcome \in StorageOutcomes : InsertSubtask(d, outcome)
  \/ \E d \in DumpIds, outcome \in StorageOutcomes : InsertRelation(d, outcome)
  \/ \E d \in DumpIds, outcome \in EmbeddingOutcomes : Embed(d, outcome)
  \/ \E d \in DumpIds, outcome \in StorageOutcomes : InsertVector(d, outcome)
  \/ \E d \in DumpIds, outcome \in StorageOutcomes : MarkProcessed(d, outcome)

Spec == Init /\ [][Next]_vars

\* ------------------------------------------------------------ properties
Started == {d \in DumpIds : runs[d].pc # "idle"}
Ended == {d \in DumpIds : runs[d].pc = "done"}
RowsOf(d) == {t \in thoughts : t.dump_id = d}
ParentRowsOf(d) == {t \in RowsOf(d) : t.id.sub = 0}
RelationsOf(d) == {x \in relations : x.parent_thought_id.dump = d}
VectorsOf(d) == {v \in vectors : v.thought_id.dump = d}
ItemsOf(d) == runs[d].analyzed.thoughts
\* The run reached the extraction and got no thought out of it.
ExtractionFailed(d) == runs[d].extraction # "none" /\ NoThoughts(runs[d].analyzed)
StubCount(thought) == IF thought.subtasks = NoSubtasks THEN 0 ELSE Len(thought.subtasks)
StubsOf(d) ==
  {<<k, m>> : k \in 1..MaxItems, m \in 1..MaxSubtasks} \cap
    {p \in (1..Len(ItemsOf(d))) \X (1..MaxSubtasks) : p[2] <= StubCount(ItemsOf(d)[p[1]])}
WellFormedItem(thought) ==
  /\ thought.type \in ThoughtTypes
  /\ thought.importance \in {"high", "medium", "low"}
  /\ \A m \in 1..StubCount(thought) : thought.subtasks[m].order = m

\* C1: a voice run whose transcription returned null ends with the dump
\* marked processed and no thought created for it.
C1_TranscriptionFailureMarksProcessed ==
  \A d \in Ended :
    (runs[d].path = "voice" /\ runs[d].transcript = "<null>") =>
      /\ dumps[d].processed = TRUE
      /\ RowsOf(d) = {}

\* C2: once the extraction has returned at least one item, the run ends by
\* issuing the update that sets processed and the model-version tag.
C2_ItemsAlwaysLeadToProcessed ==
  \A d \in Ended :
    ~NoThoughts(runs[d].analyzed) =>
      /\ runs[d].markCall = "processed+model_version"
      /\ runs[d].markResult = "ok" =>
           (dumps[d].processed = TRUE /\ dumps[d].model_version = ModelVersion)

\* C3: when the extraction fails or returns an empty list, on either path, no
\* thought, relation or vector is ever created for the dump and the run ends
\* by issuing the update processed = true, which sets the flag whenever the
\* store accepts it.
C3_ExtractionFailureMarksProcessed ==
  \A d \in Started :
    ExtractionFailed(d) =>
      /\ RowsOf(d) = {}
      /\ RelationsOf(d) = {}
      /\ VectorsOf(d) = {}
      /\ d \in Ended =>
           /\ runs[d].markCall = "processed"
           /\ runs[d].markResult = "ok" => dumps[d].processed = TRUE

C3_Witness ==
  \E d \in Ended :
    /\ runs[d].path = "voice"
    /\ runs[d].extraction = "invalid_json"
    /\ dumps[d].processed = TRUE
    /\ RowsOf(d) = {}

\* C4: no thought whose type is outside the six-member enum is persisted, and
\* a run whose writes all succeed persists one thought per item of a valid
\* type.
C4_InvalidTypeSkipped ==
  /\ \A t \in thoughts : t.type \in ThoughtTypes
  /\ \A d \in Ended :
       (runs[d].end = "completed" /\ runs[d].failures = 0) =>
         Cardinality(ParentRowsOf(d)) =
           Cardinality({k \in 1..Len(ItemsOf(d)) : ItemsOf(d)[k].type \in ThoughtTypes})

\* C5: the thought persisted for an item declared a reminder has type task.
C5_ReminderPersistedAsTask ==
  \A t \in thoughts :
    (t.id.sub = 0 /\ ItemsOf(t.id.dump)[t.id.item].type = "reminder") => t.type = "task"

C7_EmbeddingFailureIsolated ==
  \A d \in Started :
    \A i \in runs[d].embNull :
      /\ \E t \in thoughts : t.id = RowId(d, i, 0)
      /\ \A x \in relations :
           x.parent_thought_id = RowId(d, i, 0) =>
             \E t \in thoughts : t.id = x.child_thought_id
      /\ ~\E v \in vectors : v.thought_id = RowId(d, i, 0)
      /\ runs[d].i > i \/ runs[d].pc \in {"mark_processed", "done"}
      /\ d \in Ended => runs[d].markCall = "processed+model_version"

C7_Witness ==
  \E d \in Ended :
    /\ runs[d].embNull = {1}
    /\ runs[d].end = "completed"
    /\ \E x \in relations : x.parent_thought_id = RowId(d, 1, 0)
    /\ \E t \in thoughts : t.id = RowId(d, 2, 0)
    /\ \E v \in vectors : v.thought_id = RowId(d, 2, 0)

\* C8: no run lets an exception out to its caller, whatever fails.
C8_NoExceptionEscapes ==
  \A d \in DumpIds : ~runs[d].escaped /\ runs[d].end # "escaped"

C8_Witness ==
  \E d \in Ended :
    /\ runs[d].end = "caught"
    /\ runs[d].failures >= 1
    /\ ~runs[d].escaped

\* C9: every resurface_at persisted on a thought is null or a well-formed
\* absolute ISO timestamp.
C9_ResurfaceAtWellFormed ==
  \A t \in thoughts : t.resurface_at # NullStr => WellFormedISO(t.resurface_at)

\* ------------------------------------- getTaskResurfaceSchedule, on its own
Hours == 0..23
ScheduleDeadlines ==
  {<<Tok("date", d), Tok("time", h)>> : d \in 0..MaxDay, h \in Hours}
    \cup {<<Word("someday")>>, <<Tok("baddate", 0), Tok("time", 9)>>}
ScheduleNows == {MkDate(d, h) : d \in 0..MaxDay, h \in Hours}

InitSchedule ==
  /\ PipelineIdle
  /\ schedArgs \in [deadline : ScheduleDeadlines, now : ScheduleNows]
  /\ schedRet = <<>>
  /\ schedDone = FALSE
  /\ ResolverIdle
  /\ ConfidenceIdle
  /\ CalendarIdle
  /\ SmsIdle
  /\ PathsIdle

CallGetTaskResurfaceSchedule ==
  /\ ~schedDone
  /\ schedRet' = getTaskResurfaceSchedule(schedArgs.deadline, schedArgs.now)
  /\ schedDone' = TRUE
  /\ UNCHANGED schedArgs
  /\ UNCHANGED replies
  /\ UNCHANGED pvars
  /\ UNCHANGED rvars
  /\ UNCHANGED cvars
  /\ UNCHANGED fvars
  /\ UNCHANGED sms

NextSchedule == CallGetTaskResurfaceSchedule

SpecSchedule == InitSchedule /\ [][NextSchedule]_vars

\* -------------------------------------------------------------------- C10
ScheduleCandidates(deadline) ==
  LET dd == NewDate(deadline)
  IN  {toISOString(twoDaysBefore(dd)), toISOString(dayOf(dd)),
       toISOString(twoHoursBefore(dd))}

NotAfter(a, b) == ~After(NewDate(a), NewDate(b))

\* C10: the schedule has at most three timestamps, each one of the three
\* candidates and strictly after now, listed in ascending order.
C10_ScheduleAscending ==
  schedDone =>
    /\ Len(schedRet) <= 3
    /\ \A k \in 1..Len(schedRet) :
         /\ schedRet[k] \in ScheduleCandidates(schedArgs.deadline)
         /\ After(NewDate(schedRet[k]), schedArgs.now)
    /\ \A k \in 1..Len(schedRet), l \in 1..Len(schedRet) :
         k < l => NotAfter(schedRet[k], schedRet[l])

\* ----------------------------------------- parseResurfaceTiming, on its own
\* The expressions the resolver is called with.
Phrase(words) == [k \in 1..Len(words) |-> Word(words[k])]
InDays(n) == <<Word("in"), Num(n), Word("days")>>
InHours(n) == <<Word("in"), Num(n), Word("hours")>>
DaysBeforeDeadline(n) == <<Num(n), Word("days"), Word("before"), Word("deadline")>>

WeekdayTimings == {<<Word(daysOfWeek[i])>> : i \in 1..7}
Timings ==
  WeekdayTimings \cup
  { Phrase(<<"Tomorrow", "Morning">>), Phrase(<<"tomorrow", "afternoon">>),
    Phrase(<<"tomorrow", "evening">>), Phrase(<<"tomorrow">>),
    Phrase(<<"Next", "week">>),
    InDays(0), InDays(3), <<Word("within"), Num(1), Word("day")>>,
    <<Word("In"), Num(2 * MaxDateDays), Word("days")>>,
    InHours(2), InHours(30),
    DaysBeforeDeadline(2), Phrase(<<"right", "before", "deadline">>),
    Phrase(<<"Monday", "or", "sunday">>),
    Phrase(<<"tomorrow", "morning", "or", "tomorrow", "evening">>),
    Phrase(<<"friday", "or", "tomorrow">>),
    Phrase(<<"next", "week">>) \o InDays(1),
    InHours(2) \o InDays(3),
    InDays(3) \o DaysBeforeDeadline(2),
    DaysBeforeDeadline(1) \o Phrase(<<"friday">>),
    Phrase(<<"someday">>), Phrase(<<"after", "lunch">>), <<>>,
    ISO(5, 14), ISO(0, 0), <<Tok("date", 3), Word("ish")>>,
    Undefined, NullStr }

\* The anchors: none, a timestamp, a string new Date() cannot parse.
ResolverDeadlines == {NullStr, Undefined, ISO(10, 8), <<Word("someday")>>}
ResolverHours == {10, 23}
ResolverNows == {MkDate(d, h) : d \in 0..MaxDay, h \in ResolverHours}

InitResolver ==
  /\ PipelineIdle
  /\ ScheduleIdle
  /\ clock \in ResolverNows
  /\ resArgs \in [timing : Timings, deadline : ResolverDeadlines]
  /\ resCalls = <<>>
  /\ ConfidenceIdle
  /\ CalendarIdle
  /\ SmsIdle
  /\ PathsIdle

\* Time passes between two calls.
Tick ==
  /\ \E later \in ResolverNows : After(later, clock) /\ clock' = later
  /\ UNCHANGED <<resArgs, resCalls>>
  /\ UNCHANGED <<schedArgs, schedRet, schedDone>>
  /\ UNCHANGED replies
  /\ UNCHANGED pvars
  /\ UNCHANGED cvars
  /\ UNCHANGED fvars
  /\ UNCHANGED sms

\* const now = new Date()
ReadClock(c) == c

\* One call of parseResurfaceTiming(timing, deadline): a run makes one for each
\* item of the response.
CallParseResurfaceTiming ==
  /\ Len(resCalls) < MaxItems
  /\ resCalls' =
       Append(resCalls,
              [now |-> ReadClock(clock),
               ret |-> parseResurfaceTiming(resArgs.timing, resArgs.deadline,
                                            ReadClock(clock))])
  /\ UNCHANGED <<clock, resArgs>>
  /\ UNCHANGED <<schedArgs, schedRet, schedDone>>
  /\ UNCHANGED replies
  /\ UNCHANGED pvars
  /\ UNCHANGED cvars
  /\ UNCHANGED fvars
  /\ UNCHANGED sms

NextResolver == Tick \/ CallParseResurfaceTiming

SpecResolver == InitResolver /\ [][NextResolver]_vars

\* -------------------------------------------------------------------- C11
Calls == 1..Len(resCalls)

\* C11: the resolver's result is determined by the arguments it is passed and
\* no clock is read behind them: every call made with the same expression and
\* the same anchor deadline returns the same result.
C11_DeterministicInArguments ==
  \A a \in Calls, b \in Calls : resCalls[a].ret = resCalls[b].ret

\* -------------------------------------------------------------------- C12
\* The vocabulary of the resolver, in its order of priority.
TomorrowMorning == 1
TomorrowAfternoon == 2
TomorrowEvening == 3
BareTomorrow == 4
NextWeek == 5
InNDays == 6
InNHours == 7
NDaysBeforeDeadline == 8
WeekdayName == 9

HasAnchor(deadline) == deadline \notin {NullStr, Undefined}

\* The classes an expression contains a phrase of.
ClassesIn(timing, deadline) ==
  LET lower == toLowerCase(timing)
  IN  {k \in TomorrowMorning..WeekdayName :
         CASE k = TomorrowMorning -> includes(lower, Phrase(<<"tomorrow", "morning">>))
           [] k = TomorrowAfternoon -> includes(lower, Phrase(<<"tomorrow", "afternoon">>))
           [] k = TomorrowEvening -> includes(lower, Phrase(<<"tomorrow", "evening">>))
           [] k = BareTomorrow -> includes(lower, Phrase(<<"tomorrow">>))
           [] k = NextWeek -> includes(lower, Phrase(<<"next", "week">>))
           [] k = InNDays -> daysMatch(lower) # {}
           [] k = InNHours -> hoursMatch(lower) # {}
           [] k = NDaysBeforeDeadline ->
                /\ HasAnchor(deadline)
                /\ includes(lower, Phrase(<<"before", "deadline">>))
                /\ daysBeforeMatch(lower) # {}
           [] OTHER -> WeekdaysIn(lower) # {}}

FirstClass(timing, deadline) == FirstOf(ClassesIn(timing, deadline))

\* An instant as a timestamp; null when no Date can hold it.
Instant(day, hour) ==
  IF day >= -MaxDateDays /\ day < MaxDateDays THEN ISO(day, hour) ELSE NullStr

WeekdayOf(day) == (day + EpochWeekday) % 7

\* What a class resolves an expression to.
ClassResult(k, timing, deadline, now) ==
  LET lower == toLowerCase(timing)
  IN  CASE k = TomorrowMorning -> {Instant(now.day + 1, 9)}
        [] k = TomorrowAfternoon -> {Instant(now.day + 1, 14)}
        [] k = TomorrowEvening -> {Instant(now.day + 1, 18)}
        [] k = BareTomorrow -> {Instant(now.day + 1, 9)}
        [] k = NextWeek -> {Instant(now.day + 7, 9)}
        [] k = InNDays ->
             {Instant(now.day + lower[FirstOf(daysMatch(lower)) + 1].n, 9)}
        [] k = InNHours ->
             LET h == now.hour + lower[FirstOf(hoursMatch(lower)) + 1].n
             IN  {Instant(now.day + (h \div 24), h % 24)}
        [] k = NDaysBeforeDeadline ->
             IF WellFormedISO(deadline)
               THEN {Instant(deadline[1].n - lower[FirstOf(daysBeforeMatch(lower))].n, 9)}
               ELSE {NullStr}
        [] OTHER ->
             {Instant(now.day + a, 9) : a \in {b \in 1..7 : WeekdayOf(now.day + b) \in WeekdaysIn(lower)}}

Relative(timing) == IsString(timing) /\ ~MatchesIsoPrefix(timing)

\* C12: an expression that contains phrases of the vocabulary is resolved by
\* the class that comes first in the order tomorrow morning, tomorrow afternoon,
\* tomorrow evening, tomorrow, next week, in N days, in N hours, N days before
\* deadline (with an anchor), weekday name.
C12_FirstClassDecides ==
  \A c \in Calls :
    (Relative(resArgs.timing) /\ ClassesIn(resArgs.timing, resArgs.deadline) # {}) =>
      resCalls[c].ret \in
        ClassResult(FirstClass(resArgs.timing, resArgs.deadline),
                    resArgs.timing, resArgs.deadline, resCalls[c].now)

C12_Witness ==
  \E c \in Calls :
    /\ Relative(resArgs.timing)
    /\ {InNDays, InNHours} \subseteq ClassesIn(resArgs.timing, resArgs.deadline)
    /\ resCalls[c].ret \in ClassResult(InNDays, resArgs.timing, resArgs.deadline, resCalls[c].now)
    /\ resCalls[c].ret \notin ClassResult(InNHours, resArgs.timing, resArgs.deadline, resCalls[c].now)

\* -------------------------------------------------------------------- C13
\* The expression is resolved by a weekday name.
NamesWeekday(timing, deadline) ==
  /\ Relative(timing)
  /\ ClassesIn(timing, deadline) # {}
  /\ FirstClass(timing, deadline) = WeekdayName

\* C13: an expression naming a weekday resolves to 09:00 of a day 1 to 7 days
\* after the reference day that bears a weekday it names, 7 days after when
\* the reference day is itself the one weekday named; never to the reference day.
C13_NextWeekdayStrictlyAfter ==
  \A c \in Calls :
    NamesWeekday(resArgs.timing, resArgs.deadline) =>
      LET now == resCalls[c].now
          named == WeekdaysIn(toLowerCase(resArgs.timing))
      IN  \E a \in 1..7 :
            /\ resCalls[c].ret = ISO(now.day + a, 9)
            /\ WeekdayOf(now.day + a) \in named
            /\ named = {WeekdayOf(now.day)} => a = 7

C13_Witness ==
  \E c \in Calls :
    /\ NamesWeekday(resArgs.timing, resArgs.deadline)
    /\ WeekdaysIn(toLowerCase(resArgs.timing)) = {WeekdayOf(resCalls[c].now.day)}
    /\ resCalls[c].ret = ISO(resCalls[c].now.day + 7, 9)

\* -------------------------------------------------------------------- C14
\* The expression is "in N days" and nothing else.
IsInNDays(timing) ==
  /\ Relative(timing)
  /\ Len(timing) = 3
  /\ toLowerCase(timing)[1].w = "in"
  /\ timing[2].w = "#"
  /\ StartsWithDay(timing[3].w)

DayCount(timing) == timing[2].n

\* 09:00 of the day is a time a Date can hold.
Representable(day) == day >= -MaxDateDays /\ day < MaxDateDays

\* C14 as stated: for every N >= 0, "in N days" resolves to the day of now plus
\* N days, at 09:00.
C14_InNDaysEveryN ==
  \A c \in Calls :
    IsInNDays(resArgs.timing) =>
      resCalls[c].ret = ISO(resCalls[c].now.day + DayCount(resArgs.timing), 9)

\* C14, amended: for every N >= 0 for which 09:00 of the day N days after now
\* is within the range of Date, "in N days" resolves to that day at 09:00, and
\* "in 0 days" to today at 09:00; for a larger N the result is null.
C14_InNDaysWithinDateRange ==
  \A c \in Calls :
    IsInNDays(resArgs.timing) =>
      LET day == resCalls[c].now.day + DayCount(resArgs.timing)
      IN  IF Representable(day)
            THEN resCalls[c].ret = ISO(day, 9)
            ELSE resCalls[c].ret = NullStr

C14_Witness ==
  \E c \in Calls :
    /\ IsInNDays(resArgs.timing)
    /\ DayCount(resArgs.timing) = 0
    /\ resCalls[c].now.hour > 9
    /\ resCalls[c].ret = ISO(resCalls[c].now.day, 9)

\* -------------------------------------------------------------------- C15
\* C15: an expression that is an absolute ISO timestamp is returned unchanged,
\* whatever the clock reads and whatever the anchor deadline is.
C15_IsoReturnedUnchanged ==
  \A c \in Calls :
    WellFormedISO(resArgs.timing) => resCalls[c].ret = resArgs.timing

C15_Witness ==
  \E c \in Calls :
    /\ WellFormedISO(resArgs.timing)
    /\ HasAnchor(resArgs.deadline)
    /\ After(resCalls[c].now, NewDate(resArgs.timing))
    /\ resCalls[c].ret = resArgs.timing

\* -------------------------------------------------------------------- C16
\* The expression is a string, is no absolute timestamp and contains no phrase
\* of the vocabulary (a "before deadline" phrase counts only with an anchor).
Unrecognized(timing, deadline) ==
  /\ IsString(timing)
  /\ ~WellFormedISO(timing)
  /\ ClassesIn(timing, deadline) = {}

\* C16: an expression that is no absolute timestamp and matches no recognized
\* phrase resolves to 09:00 of the day after now, and never to null.
C16_FallbackTomorrowMorning ==
  \A c \in Calls :
    Unrecognized(resArgs.timing, resArgs.deadline) =>
      /\ resCalls[c].ret # NullStr
      /\ resCalls[c].ret = ISO(resCalls[c].now.day + 1, 9)

\* -------------------------------------------------------------------- C17
Resolved(d) == runs[d].resolved
HasRow(id) == \E t \in thoughts : t.id = id
RowAt(id) == CHOOSE t \in thoughts : t.id = id

\* C17: the resolver never raises, whatever it is given; it returns null only
\* when its body failed; and an item whose resurface time resolved to null
\* still has its thought persisted, with resurface_at null, followed by its
\* subtasks and its embedding.
C17_NullResurfaceIsNotFatal ==
  \A d \in Started :
    \A k \in 1..Len(Resolved(d)) :
      LET ret == Resolved(d)[k].ret
          item == ItemsOf(d)[k]
      IN  /\ ret # Thrown
          /\ ret = NullStr =>
               /\ parseResurfaceTimingBody(item.resurface_timing, item.deadline,
                                           Resolved(d)[k].now) = Thrown
               /\ HasRow(RowId(d, k, 0)) => RowAt(RowId(d, k, 0)).resurface_at = NullStr
               /\ (runs[d].end = "completed" /\ runs[d].failures = 0) =>
                    /\ HasRow(RowId(d, k, 0))
                    /\ \A m \in 1..StubCount(item) :
                         /\ HasRow(RowId(d, k, m))
                         /\ \E x \in relations : x.child_thought_id = RowId(d, k, m)
                    /\ \E v \in vectors : v.thought_id = RowId(d, k, 0)

C17_Witness ==
  \E d \in Ended :
    \E k \in 1..Len(Resolved(d)), l \in 1..Len(Resolved(d)) :
      /\ runs[d].end = "completed"
      /\ ~IsString(ItemsOf(d)[l].resurface_timing)
      /\ Resolved(d)[l].ret = NullStr
      /\ HasRow(RowId(d, l, 0))
      /\ HasAnchor(ItemsOf(d)[k].deadline)
      /\ ~WellFormedISO(ItemsOf(d)[k].deadline)
      /\ Resolved(d)[k].ret = NullStr
      /\ StubCount(ItemsOf(d)[k]) >= 1
      /\ HasRow(RowId(d, k, 0))
      /\ RowAt(RowId(d, k, 0)).resurface_at = NullStr
      /\ HasRow(RowId(d, k, 1))
      /\ \E v \in vectors : v.thought_id = RowId(d, k, 0)

\* --------------------------------------------------------- calculateConfidence
\* A JavaScript number is an IEEE 754 double. One between 1/16 and 2 is the
\* integer hi * Limb^2 + mid * Limb + lo of units of 2^-56, held in three limbs.
Limb == 1048576
Dbl(hi, mid, lo) == [hi |-> hi, mid |-> mid, lo |-> lo]

\* The distance between a double and the next one, in units: doubles carry 53
\* significant bits.
Ulp(x) ==
  IF x.hi >= 65536 THEN 16
  ELSE IF x.hi >= 32768 THEN 8
  ELSE IF x.hi >= 16384 THEN 4
  ELSE IF x.hi >= 8192 THEN 2
  ELSE 1

Carry(hi, mid, lo) ==
  LET m == mid + (lo \div Limb)
  IN  Dbl(hi + (m \div Limb), m % Limb, lo % Limb)

\* The exact sum.
Sum(a, b) == Carry(a.hi + b.hi, a.mid + b.mid, a.lo + b.lo)

\* Round x + num/den to the nearest double, a tie to the even one.
RoundNearestEven(x, num, den) ==
  LET u == Ulp(x)
      r == x.lo % u
      down == Dbl(x.hi, x.mid, x.lo - r)
      up == Carry(x.hi, x.mid, x.lo - r + u)
      twice == 2 * (r * den + num)
  IN  IF twice < u * den THEN down
      ELSE IF twice > u * den THEN up
      ELSE IF (down.lo \div u) % 2 = 0 THEN down
      ELSE up

\* a + b of two numbers
Plus(a, b) == RoundNearestEven(Sum(a, b), 0, 1)

\* The number a literal of k tenths denotes (0.5, 0.1, 1.0): k * 2^56 divided
\* by ten, rounded.
Decimal(k) ==
  LET h == k * 65536
      m == (h % 10) * Limb
      l == (m % 10) * Limb
  IN  RoundNearestEven(Dbl(h \div 10, m \div 10, l \div 10), l % 10, 10)

Less(a, b) ==
  \/ a.hi < b.hi
  \/ a.hi = b.hi /\ a.mid < b.mid
  \/ a.hi = b.hi /\ a.mid = b.mid /\ a.lo < b.lo

\* Math.min(a, b)
MathMin(a, b) == IF Less(b, a) THEN b ELSE a

\* A field is truthy: neither null nor the empty string.
Populated(v) == v \notin {"<null>", ""}

\* score += 0.1 when the condition holds
AddIf(score, cond) == IF cond THEN Plus(score, Decimal(1)) ELSE score

calculateConfidence(thought) ==
  LET s0 == Decimal(5)
      s1 == AddIf(s0, Populated(thought.type))
      s2 == AddIf(s1, Populated(thought.importance))
      s3 == AddIf(s2, thought.type = "task" /\ Populated(thought.next_action))
      s4 == AddIf(s3, thought.type = "task" /\ Populated(thought.deadline))
      s5 == AddIf(s4, Populated(thought.category))
  IN  MathMin(s5, Decimal(10))

\* The thoughts the scorer is called with.
ConfidenceThoughts ==
  [type : {"task", "idea", "", "<null>"},
   importance : {"high", "", "<null>"},
   next_action : {"call the bank", "<null>"},
   deadline : {"2025-01-07T09:00:00Z", "<null>"},
   category : {"work", "", "<null>"}]

InitConfidence ==
  /\ PipelineIdle
  /\ ScheduleIdle
  /\ ResolverIdle
  /\ CalendarIdle
  /\ SmsIdle
  /\ PathsIdle
  /\ confArgs \in ConfidenceThoughts
  /\ confRet = Dbl(0, 0, 0)
  /\ confDone = FALSE

CallCalculateConfidence ==
  /\ ~confDone
  /\ confRet' = calculateConfidence(confArgs)
  /\ confDone' = TRUE
  /\ UNCHANGED confArgs
  /\ UNCHANGED <<schedArgs, schedRet, schedDone>>
  /\ UNCHANGED replies
  /\ UNCHANGED rvars
  /\ UNCHANGED pvars
  /\ UNCHANGED fvars
  /\ UNCHANGED sms

NextConfidence == CallCalculateConfidence

SpecConfidence == InitConfidence /\ [][NextConfidence]_vars

\* -------------------------------------------------------------------- C18
Indicator(cond) == IF cond THEN 1 ELSE 0

\* Tenths above the base the claim's formula adds for a thought.
TenthsAdded(thought) ==
  Indicator(Populated(thought.type))
    + Indicator(Populated(thought.importance))
    + Indicator(thought.type = "task" /\ Populated(thought.next_action))
    + Indicator(thought.type = "task" /\ Populated(thought.deadline))
    + Indicator(Populated(thought.category))

\* C18: the score is min(1.0, 0.5 + 0.1 for each of the five conditions that
\* holds): exactly 1.0 for a task with all five, exactly 0.6 for a thought with
\* only its type, and always between 0 and 1.
C18_ConfidenceIsExactSum ==
  confDone =>
    /\ confRet = Decimal(5 + TenthsAdded(confArgs))
    /\ ~Less(Decimal(10), confRet)
    /\ ~Less(confRet, Dbl(0, 0, 0))

\* -------------------------------------------------------------- getNextFreeTime
\* Instants are whole hours. An event of the calendar is [start, end, skipped]:
\* skipped when it is an all-day or a cancelled event.
Event(start, end, skipped) == [start |-> start, end |-> end, skipped |-> skipped]
CalendarHours == (-1)..MaxDay
CalendarEvents ==
  {Event(a, b, k) : a \in CalendarHours, b \in CalendarHours, k \in BOOLEAN} \cap
    {e \in [start : CalendarHours, end : CalendarHours, skipped : BOOLEAN] :
       e.start < e.end}

\* .sort((a, b) => a.start.getTime() - b.start.getTime()), a stable sort
RECURSIVE InsertByStart(_, _)
InsertByStart(sorted, e) ==
  IF sorted = <<>> THEN <<e>>
  ELSE IF sorted[Len(sorted)].start <= e.start THEN Append(sorted, e)
  ELSE Append(InsertByStart(SubSeq(sorted, 1, Len(sorted) - 1), e), sorted[Len(sorted)])

RECURSIVE SortByStart(_)
SortByStart(q) ==
  IF q = <<>> THEN <<>>
  ELSE InsertByStart(SortByStart(SubSeq(q, 1, Len(q) - 1)), q[Len(q)])

\* events.filter(...): all-day and cancelled events are left out
RECURSIVE FilterActive(_)
FilterActive(q) ==
  IF q = <<>> THEN <<>>
  ELSE IF q[1].skipped THEN FilterActive(Tail(q))
  ELSE <<q[1]>> \o FilterActive(Tail(q))

\* getBusyTimes: nothing when the events cannot be fetched.
getBusyTimes(fetch, events) ==
  IF fetch = "ok" THEN SortByStart(FilterActive(events)) ELSE <<>>

\* busyTimes.some(slot => slot.start <= now && slot.end > now)
currentlyBusy(busyTimes, now) ==
  \E k \in 1..Len(busyTimes) : busyTimes[k].start <= now /\ busyTimes[k].end > now

\* The gap after slot i, in minutes.
gapMinutes(busyTimes, i) == (busyTimes[i + 1].start - busyTimes[i].end) * 60

getNextFreeTime(args) ==
  LET now == args.now
      busyTimes == getBusyTimes(args.fetch, args.events)
      gaps == {i \in 1..(Len(busyTimes) - 1) :
                 gapMinutes(busyTimes, i) >= args.minDurationMinutes}
  IN  IF ~args.granted THEN now
      ELSE IF Len(busyTimes) = 0 THEN now
      ELSE IF ~currentlyBusy(busyTimes, now) THEN now
      ELSE IF gaps # {} THEN busyTimes[FirstOf(gaps)].end
      ELSE busyTimes[Len(busyTimes)].end

InitCalendar ==
  /\ PipelineIdle
  /\ ScheduleIdle
  /\ ResolverIdle
  /\ ConfidenceIdle
  /\ SmsIdle
  /\ PathsIdle
  /\ freeArgs \in [granted : BOOLEAN, fetch : {"ok", "error"},
                   events : SeqsUpTo(CalendarEvents, MaxEvents), now : {0},
                   minDurationMinutes : {15, 90}]
  /\ freeRet = 0
  /\ freeDone = FALSE

CallGetNextFreeTime ==
  /\ ~freeDone
  /\ freeRet' = getNextFreeTime(freeArgs)
  /\ freeDone' = TRUE
  /\ UNCHANGED freeArgs
  /\ UNCHANGED <<schedArgs, schedRet, schedDone>>
  /\ UNCHANGED replies
  /\ UNCHANGED rvars
  /\ UNCHANGED cvars
  /\ UNCHANGED pvars
  /\ UNCHANGED sms

NextCalendar == CallGetNextFreeTime

SpecCalendar == InitCalendar /\ [][NextCalendar]_vars

\* -------------------------------------------------------------------- C20
\* The busy slots of the window: the events that are neither all-day nor
\* cancelled.
BusySlots == {freeArgs.events[k] : k \in 1..Len(freeArgs.events)} \cap
               {e \in CalendarEvents : ~e.skipped}
InSlot(t, e) == e.start <= t /\ e.end > t

\* C20: with calendar permission granted and the user inside a busy slot at
\* now, the instant returned is not before now and lies in no busy slot,
\* whether the slots are disjoint, overlapping or nested.
C20_NextFreeTimeIsFree ==
  ( /\ freeDone
    /\ freeArgs.granted
    /\ freeArgs.fetch = "ok"
    /\ \E e \in BusySlots : InSlot(freeArgs.now, e) ) =>
    /\ freeRet >= freeArgs.now
    /\ \A e \in BusySlots : ~InSlot(freeRet, e)

\* ------------------------------------------------------------------ sms-webhook
\* serve(): one request of the webhook, from the text message to the response.
SmsItemOf(r) == r.analyzed.thoughts[r.i]
SmsStep(r) == sms' = r
SmsMayFail(outcome) == outcome = "ok" \/ sms.failures < MaxFailures
SmsFailing(r, outcome) == [r EXCEPT !.failures = IF outcome = "ok" THEN @ ELSE @ + 1]
Tell(r, what) == [r EXCEPT !.feedback = Append(@, what)]

\* catch (error): the TwiML message "Sorry, something went wrong...", status 500
SmsCatch(r) ==
  [Tell(r, "error_reported") EXCEPT !.pc = "done", !.status = 500, !.failures = @ + 1]

\* An early return with a TwiML message: no account, or SMS not enabled.
SmsReject(r) == [Tell(r, "rejected") EXCEPT !.pc = "done", !.status = 200]

\* for (const thought of analyzed.thoughts): the next item, or the statements
\* after the loop.
SmsNextItem(r) ==
  IF r.i < Len(r.analyzed.thoughts)
    THEN [r EXCEPT !.pc = "insert_thought", !.i = @ + 1, !.j = 0]
    ELSE [r EXCEPT !.pc = "mark_processed", !.j = 0]

SmsNextSubtask(r) ==
  IF r.j < Len(SmsItemOf(r).subtasks)
    THEN [r EXCEPT !.pc = "insert_subtask", !.j = @ + 1]
    ELSE SmsNextItem(r)

\* Lines 44-82: the form is read and the profile looked up by phone number.
SmsFindProfile(question, outcome) ==
  /\ sms.pc = "idle"
  /\ CASE outcome = "throw" -> SmsStep(SmsCatch([sms EXCEPT !.question = question]))
       [] outcome \in {"not_found", "disabled"} ->
            SmsStep(SmsReject([sms EXCEPT !.question = question]))
       [] OTHER ->
            SmsStep([sms EXCEPT !.pc = "save_inbound", !.question = question,
                                !.profile = "u1"])
  /\ UNCHANGED pvars
  /\ UNCHANGED <<schedArgs, schedRet, schedDone>>
  /\ UNCHANGED replies
  /\ UNCHANGED <<rvars, cvars, fvars>>

\* Lines 85-100: the inbound message is saved (the result is not looked at), then
\* the request goes to the question branch or to the completion call.
SmsSaveInbound(outcome) ==
  LET saved == IF outcome = "ok" THEN Tell(sms, "record_created") ELSE sms
      r == SmsFailing(saved, outcome)
  IN  /\ sms.pc = "save_inbound"
      /\ SmsMayFail(outcome)
      /\ CASE outcome = "throw" -> SmsStep(SmsCatch(sms))
           [] sms.question -> SmsStep([r EXCEPT !.pc = "answer"])
           [] OTHER -> SmsStep([Tell(r, "stage_started") EXCEPT !.pc = "extract"])
      /\ UNCHANGED pvars
      /\ UNCHANGED <<schedArgs, schedRet, schedDone>>
      /\ UNCHANGED replies
      /\ UNCHANGED <<rvars, cvars, fvars>>

\* Lines 100-187: a question is answered from the stored thoughts and the
\* answer sent as a message.
SmsAnswer(outcome) ==
  /\ sms.pc = "answer"
  /\ SmsMayFail(outcome)
  /\ CASE outcome = "throw" -> SmsStep(SmsCatch(sms))
       [] outcome = "ok" ->
            SmsStep([Tell(sms, "answer") EXCEPT !.pc = "done", !.status = 200])
       [] OTHER -> SmsStep([SmsFailing(sms, outcome) EXCEPT !.pc = "done", !.status = 200])
  /\ UNCHANGED pvars
  /\ UNCHANGED <<schedArgs, schedRet, schedDone>>
  /\ UNCHANGED replies
  /\ UNCHANGED <<rvars, cvars, fvars>>

\* Lines 265-283: the completion call, JSON.parse and the start of the loop. A
\* failed call, an empty content, invalid JSON and a missing thoughts list all
\* throw.
SmsAnalyze(response) ==
  /\ sms.pc = "extract"
  /\ IF response.kind \in ExtractionFailures
       THEN SmsStep(SmsCatch(sms))
       ELSE SmsStep(SmsNextItem([sms EXCEPT !.analyzed =
                                   [isNull |-> FALSE, thoughts |-> response.thoughts],
                                 !.i = 0]))
  /\ UNCHANGED pvars
  /\ UNCHANGED <<schedArgs, schedRet, schedDone>>
  /\ UNCHANGED replies
  /\ UNCHANGED <<rvars, cvars, fvars>>

\* The row of lines 286-298: no dump_id, no resurface_at, no subtasks column.
SmsThoughtRow(r, thought) ==
  [id |-> RowId("sms", r.i, 0), dump_id |-> "<null>", user_id |-> r.profile,
   thought_text |-> thought.thought_text,
   type |-> thought.type,
   importance |-> thought.importance,
   sentiment |-> thought.sentiment,
   deadline |-> thought.deadline,
   resurface_at |-> NullStr,
   subtasks |-> NoSubtasks]

\* The row of lines 313-323.
SmsSubtaskRow(r, thought, subtask) ==
  [id |-> RowId("sms", r.i, r.j), dump_id |-> "<null>", user_id |-> r.profile,
   thought_text |-> subtask.text,
   type |-> "task",
   importance |-> thought.importance,
   sentiment |-> "neutral",
   deadline |-> thought.deadline,
   resurface_at |-> NullStr,
   subtasks |-> NoSubtasks]

\* Lines 284-308: the insert of an item's thought, outside any inner try block.
SmsInsertThought(outcome) ==
  LET thought == SmsItemOf(sms)
  IN  /\ sms.pc = "insert_thought"
      /\ SmsMayFail(outcome)
      /\ thoughts' = IF outcome = "ok"
                       THEN thoughts \cup {SmsThoughtRow(sms, thought)}
                       ELSE thoughts
      /\ CASE outcome = "throw" -> SmsStep(SmsCatch(sms))
           [] outcome = "error" -> SmsStep(SmsNextItem(SmsFailing(sms, outcome)))
           [] OTHER ->
                IF HasSubtasks(thought)
                  THEN SmsStep(SmsNextSubtask([sms EXCEPT !.j = 0]))
                  ELSE SmsStep(SmsNextItem(sms))
      /\ UNCHANGED <<session, dumps, relations, vectors, runs>>
      /\ UNCHANGED <<schedArgs, schedRet, schedDone>>
      /\ UNCHANGED replies
      /\ UNCHANGED <<rvars, cvars, fvars>>

\* Lines 310-326: the insert of a subtask's thought, inside the subtask's try.
SmsInsertSubtask(outcome) ==
  LET thought == SmsItemOf(sms)
  IN  /\ sms.pc = "insert_subtask"
      /\ SmsMayFail(outcome)
      /\ thoughts' = IF outcome = "ok"
                       THEN thoughts \cup {SmsSubtaskRow(sms, thought, thought.subtasks[sms.j])}
                       ELSE thoughts
      /\ IF outcome = "ok"
           THEN SmsStep([sms EXCEPT !.pc = "insert_relation"])
           ELSE SmsStep(SmsNextSubtask(SmsFailing(sms, outcome)))
      /\ UNCHANGED <<session, dumps, relations, vectors, runs>>
      /\ UNCHANGED <<schedArgs, schedRet, schedDone>>
      /\ UNCHANGED replies
      /\ UNCHANGED <<rvars, cvars, fvars>>

\* Lines 327-336: the relation of the subtask to its parent.
SmsInsertRelation(outcome) ==
  /\ sms.pc = "insert_relation"
  /\ SmsMayFail(outcome)
  /\ relations' = IF outcome = "ok"
                    THEN relations \cup
                           {[parent_thought_id |-> RowId("sms", sms.i, 0),
                             child_thought_id |-> RowId("sms", sms.i, sms.j),
                             relation |-> "subtask"]}
                    ELSE relations
  /\ SmsStep(SmsNextSubtask(SmsFailing(sms, outcome)))
  /\ UNCHANGED <<session, dumps, thoughts, vectors, runs>>
  /\ UNCHANGED <<schedArgs, schedRet, schedDone>>
  /\ UNCHANGED replies
  /\ UNCHANGED <<rvars, cvars, fvars>>

\* Lines 342-345: the inbound message is marked processed.
SmsMarkProcessed(outcome) ==
  /\ sms.pc = "mark_processed"
  /\ SmsMayFail(outcome)
  /\ IF outcome = "throw"
       THEN SmsStep(SmsCatch(sms))
       ELSE SmsStep([SmsFailing(sms, outcome) EXCEPT !.pc = "send_reply"])
  /\ UNCHANGED pvars
  /\ UNCHANGED <<schedArgs, schedRet, schedDone>>
  /\ UNCHANGED replies
  /\ UNCHANGED <<rvars, cvars, fvars>>

\* Lines 348-398: the "Got it! I've captured ..." message is posted to Twilio;
\* when Twilio accepts it, it is logged; the response is an empty TwiML.
SmsSendReply(posted, logged) ==
  /\ sms.pc = "send_reply"
  /\ SmsMayFail(posted)
  /\ SmsMayFail(logged)
  /\ CASE posted = "throw" -> SmsStep(SmsCatch(sms))
       [] posted = "error" ->
            SmsStep([SmsFailing(sms, posted) EXCEPT !.pc = "done", !.status = 200])
       [] logged = "throw" -> SmsStep(SmsCatch(Tell(sms, "confirmation")))
       [] OTHER ->
            SmsStep([SmsFailing(Tell(sms, "confirmation"), logged)
                       EXCEPT !.pc = "done", !.status = 200])
  /\ UNCHANGED pvars
  /\ UNCHANGED <<schedArgs, schedRet, schedDone>>
  /\ UNCHANGED replies
  /\ UNCHANGED <<rvars, cvars, fvars>>

InitSms ==
  /\ PipelineIdle
  /\ ScheduleIdle
  /\ ResolverIdle
  /\ ConfidenceIdle
  /\ CalendarIdle
  /\ SmsIdle
  /\ PathsIdle

NextSms ==
  \/ \E question \in BOOLEAN, outcome \in {"found", "not_found", "disabled", "throw"} :
       SmsFindProfile(question, outcome)
  \/ \E outcome \in StorageOutcomes : SmsSaveInbound(outcome)
  \/ \E outcome \in StorageOutcomes : SmsAnswer(outcome)
  \/ \E response \in Responses : SmsAnalyze(response)
  \/ \E outcome \in StorageOutcomes : SmsInsertThought(outcome)
  \/ \E outcome \in StorageOutcomes : SmsInsertSubtask(outcome)
  \/ \E outcome \in StorageOutcomes : SmsInsertRelation(outcome)
  \/ \E outcome \in StorageOutcomes : SmsMarkProcessed(outcome)
  \/ \E posted \in StorageOutcomes, logged \in StorageOutcomes : SmsSendReply(posted, logged)

SpecSms == InitSms /\ [][NextSms]_vars

\* -------------------------------------------------------------------- C19
\* What each capture told its user and started, in order.
FeedbackLogs == {runs[d].feedback : d \in DumpIds} \cup {sms.feedback}
Before(log, a, b) ==
  \E k \in 1..Len(log), l \in 1..Len(log) : k < l /\ log[k] = a /\ log[l] = b
Has(log, a) == \E k \in 1..Len(log) : log[k] = a

\* C19: the confirmation (the toast, the SMS reply) comes after the dump record
\* is created and before any stage of the pipeline has started for the dump,
\* and no error of the pipeline is reported to the user.
C19_ConfirmationBeforePipeline ==
  \A log \in FeedbackLogs :
    /\ Has(log, "confirmation") => Before(log, "record_created", "confirmation")
    /\ Has(log, "stage_started") => Before(log, "confirmation", "stage_started")
    /\ ~Before(log, "stage_started", "confirmation")
    /\ ~Before(log, "stage_started", "error_reported")

\* -------------------------------------------------------------------- C21
\* C21: a dump the pipeline has marked processed carries a model-version tag,
\* whichever path the run took to the update.
C21_ProcessedHasModelVersion ==
  \A d \in DOMAIN dumps :
    dumps[d].processed = TRUE => dumps[d].model_version # "<null>"

\* -------------------------------------------------------------------- C22
\* The inserts of the top-level thoughts a run has attempted, in order.
Inserted(d) == runs[d].inserted
\* The run has left the loop over the items.
LoopLeft(d) == Inserted(d) # <<>> /\ runs[d].pc \in {"mark_processed", "done"}

\* C22: when the insert of an item's thought fails, the item gets no row of
\* its own, no child row, no relation and no vector, no embedding is asked
\* for it, and the loop still attempts every later item of the response.
C22_FailedThoughtInsertSkipsItem ==
  \A d \in Started :
    \A k \in 1..Len(Inserted(d)) :
      ~Inserted(d)[k] =>
        /\ \A t \in RowsOf(d) : t.id.item # k
        /\ \A x \in RelationsOf(d) : x.parent_thought_id.item # k
        /\ \A v \in VectorsOf(d) : v.thought_id.item # k
        /\ k \notin runs[d].embedded
        /\ LoopLeft(d) => Len(Inserted(d)) = Len(ItemsOf(d))

C22_Witness ==
  \E d \in Ended :
    /\ Len(ItemsOf(d)) = 2
    /\ Inserted(d) = <<FALSE, TRUE>>
    /\ HasSubtasks(ItemsOf(d)[1])
    /\ HasRow(RowId(d, 2, 0))
    /\ 2 \in runs[d].embedded
    /\ runs[d].end = "completed"

\* -------------------------------------------------------------------- C23
ThoughtIds == {t.id : t \in thoughts}
ParentId(id) == [id EXCEPT !.sub = 0]

\* No relation row references a thought that is not stored.
RelationsReferToRows ==
  \A x \in relations :
    /\ x.parent_thought_id \in ThoughtIds
    /\ x.child_thought_id \in ThoughtIds
    /\ x.relation = "subtask"

\* A relation is written when its parent and its child are already stored,
\* and a child is written when its parent is already stored.
RelationAfterParentAndChild ==
  /\ \A x \in relations' \ relations :
       x.parent_thought_id \in ThoughtIds /\ x.child_thought_id \in ThoughtIds
  /\ \A t \in thoughts' \ thoughts :
       t.id.sub > 0 => ParentId(t.id) \in ThoughtIds

\* A failed insert of a child is followed by the next stub of the same parent.
FailedChildGoesOn ==
  /\ \A d \in DumpIds :
       (/\ runs[d].pc = "insert_subtask"
        /\ runs'[d] # runs[d]
        /\ thoughts' = thoughts
        /\ runs[d].j < Len(ItemOf(runs[d]).subtasks))
         => /\ runs'[d].pc = "insert_subtask"
            /\ runs'[d].i = runs[d].i
            /\ runs'[d].j = runs[d].j + 1
  /\ (/\ sms.pc = "insert_subtask"
      /\ sms' # sms
      /\ thoughts' = thoughts
      /\ sms.j < Len(SmsItemOf(sms).subtasks))
       => /\ sms'.pc = "insert_subtask"
          /\ sms'.i = sms.i
          /\ sms'.j = sms.j + 1

\* C23: a relation row is written only after its parent thought and its child
\* thought were stored, the parent before the child; no relation row ever
\* references a thought that is not stored; and after a failed insert of a
\* child the loop goes on with the remaining stubs of the same parent.
C23_RelationAfterParentAndChild ==
  /\ []RelationsReferToRows
  /\ [][RelationAfterParentAndChild /\ FailedChildGoesOn]_vars

C23_Witness ==
  \E d \in Started :
    \E k \in 1..Len(ItemsOf(d)) :
      /\ HasRow(RowId(d, k, 0))
      /\ ~HasRow(RowId(d, k, 1))
      /\ HasRow(RowId(d, k, 2))
      /\ \E x \in relations :
           /\ x.parent_thought_id = RowId(d, k, 0)
           /\ x.child_thought_id = RowId(d, k, 2)
      /\ \A x \in relations : x.child_thought_id # RowId(d, k, 1)

\* -------------------------------------------------------------------- C24
ChildRows == {t \in thoughts : t.id.sub > 0}

\* C24: every child row made from a subtask stub has type task and sentiment
\* neutral, and takes its importance, its dump and its user from the row of
\* its parent.
C24_ChildFieldsFollowParent ==
  \A d \in Started :
    \A t \in ChildRows \cap RowsOf(d) :
      /\ t.type = "task"
      /\ t.sentiment = "neutral"
      /\ HasRow(ParentId(t.id))
      /\ t.importance = RowAt(ParentId(t.id)).importance
      /\ t.dump_id = RowAt(ParentId(t.id)).dump_id
      /\ t.user_id = RowAt(ParentId(t.id)).user_id

C24_Witness ==
  \E t \in ChildRows :
    /\ HasRow(ParentId(t.id))
    /\ RowAt(ParentId(t.id)).type # "task"
    /\ RowAt(ParentId(t.id)).sentiment # "neutral"
    /\ RowAt(ParentId(t.id)).importance = "low"
    /\ t.importance = "low"
    /\ t.dump_id \in DOMAIN dumps

\* -------------------------------------------------------------------- C25
\* The extraction of the run has returned a list of items.
Extracted(d) == runs[d].extraction = "ok"

\* The raw text is replaced by the transcript of a transcription that
\* succeeded, before the extraction is invoked.
RawTextAfterTranscription ==
  \A d \in DOMAIN dumps :
    dumps'[d].raw_text # dumps[d].raw_text =>
      /\ runs[d].path = "voice"
      /\ runs[d].transcript = "transcript"
      /\ dumps'[d].raw_text = runs[d].transcript
      /\ runs[d].extraction = "none"

\* The k-th insert a run attempts is the insert of the k-th item the
\* extraction returned, made after the extraction returned and before the
\* dump is marked processed.
InsertsInOrder ==
  \A d \in DOMAIN dumps :
    /\ Inserted(d)' # Inserted(d) =>
         /\ Extracted(d)
         /\ dumps[d].processed = FALSE
         /\ Len(Inserted(d)') = Len(Inserted(d)) + 1
         /\ runs[d].i = Len(Inserted(d)')
    /\ \A t \in RowsOf(d)' \ RowsOf(d) :
         /\ Extracted(d)
         /\ dumps[d].processed = FALSE
         /\ t.id.item = runs[d].i
         /\ \A u \in RowsOf(d) : u.id.item <= t.id.item
         /\ t.id.sub = 0 => t.thought_text = ItemsOf(d)[t.id.item].thought_text

\* The update that sets processed is the last write of the run.
ProcessedLast ==
  \A d \in DOMAIN dumps :
    (dumps'[d].processed = TRUE /\ dumps[d].processed = FALSE) =>
      /\ runs'[d].pc = "done"
      /\ Extracted(d) => Len(Inserted(d)) = Len(ItemsOf(d))

\* C25: within one dump the raw text is overwritten only after a successful
\* transcription and before the extraction, thoughts are inserted only after
\* the extraction returned and in the order of its items, and processed is
\* set after the last insert attempt, with no thought inserted afterwards.
C25_StagesStrictlyOrdered ==
  /\ [](\A d \in DOMAIN dumps : dumps[d].processed = TRUE => runs[d].pc = "done")
  /\ [][RawTextAfterTranscription /\ InsertsInOrder /\ ProcessedLast]_vars

C25_Witness ==
  \E d \in Ended :
    /\ runs[d].path = "voice"
    /\ dumps[d].raw_text = "transcript"
    /\ dumps[d].processed = TRUE
    /\ Len(ItemsOf(d)) = 2
    /\ ItemsOf(d)[1] # ItemsOf(d)[2]
    /\ Inserted(d) = <<TRUE, TRUE>>
    /\ HasRow(RowId(d, 1, 0))
    /\ HasRow(RowId(d, 2, 0))

\* ------------------------------------------------------ concurrent runs
\* Two users share the device one after the other, and two dumps are in
\* flight at once: each capture starts its processing call without awaiting
\* it, so the steps of the runs interleave with each other and with the
\* changes of the session.
ConcurrentUsers == {"u1", "u2"}
ConcurrentDumps == {"d1", "d2"}
ConcurrentResponses ==
  {[kind |-> "ok", thoughts |-> <<>>],
   [kind |-> "ok", thoughts |-> <<PlanWedding>>]}

\* The store answers every call of these runs: what a run does after a failed
\* call is examined on a single run, here the runs differ by their interleaving.
ConcurrentOutcomes == {"ok"}

InitConcurrent ==
  /\ session \in ConcurrentUsers
  /\ dumps = [x \in {} |-> NewDump("u1", "text", "journal")]
  /\ thoughts = {}
  /\ relations = {}
  /\ vectors = {}
  /\ runs = [d \in ConcurrentDumps |-> IdleRun]
  /\ ScheduleIdle
  /\ ResolverIdle
  /\ ConfidenceIdle
  /\ CalendarIdle
  /\ SmsIdle
  /\ PathsIdle

NextConcurrent ==
  \/ SignOut
  \/ \E u \in ConcurrentUsers : SignIn(u)
  \/ \E d \in ConcurrentDumps, uploaded \in BOOLEAN, inserted \in {"ok", "error"} :
       saveVoiceNote(d, uploaded, inserted)
  \/ \E d \in ConcurrentDumps, inserted \in {"ok", "error"} : handleSaveJournal(d, inserted)
  \/ \E d \in ConcurrentDumps, outcome \in TranscriptionOutcomes : Transcribe(d, outcome)
  \/ \E d \in ConcurrentDumps, outcome \in ConcurrentOutcomes : UpdateRawText(d, outcome)
  \/ \E d \in ConcurrentDumps, response \in ConcurrentResponses : Analyze(d, response)
  \/ \E d \in ConcurrentDumps, outcome \in ConcurrentOutcomes : MarkUnanalyzed(d, outcome)
  \/ \E d \in ConcurrentDumps, outcome \in {"ok", "throw"} : GetUser(d, outcome)
  \/ \E d \in ConcurrentDumps, outcome \in ConcurrentOutcomes, now \in PipelineNows :
       InsertThought(d, outcome, now)
  \/ \E d \in ConcurrentDumps, outcome \in ConcurrentOutcomes : InsertSubtask(d, outcome)
  \/ \E d \in ConcurrentDumps, outcome \in ConcurrentOutcomes : InsertRelation(d, outcome)
  \/ \E d \in ConcurrentDumps, outcome \in EmbeddingOutcomes : Embed(d, outcome)
  \/ \E d \in ConcurrentDumps, outcome \in ConcurrentOutcomes : InsertVector(d, outcome)
  \/ \E d \in ConcurrentDumps, outcome \in ConcurrentOutcomes : MarkProcessed(d, outcome)

SpecConcurrent == InitConcurrent /\ [][NextConcurrent]_vars

\* -------------------------------------------------------------------- C26
\* Every stored thought carries the dump its run was started for and the
\* user who owns that dump.
RowsCarryOwnDump ==
  \A t \in thoughts :
    /\ t.dump_id = t.id.dump
    /\ t.dump_id \in DOMAIN dumps
    /\ t.user_id = dumps[t.dump_id].user_id

\* A step changes the record of one dump at most, the one of the run that
\* took it, and leaves every stored thought as it is.
RunsWriteOwnRecords ==
  /\ thoughts \subseteq thoughts'
  /\ \A d \in DOMAIN dumps :
       dumps'[d] # dumps[d] =>
         /\ runs'[d] # runs[d]
         /\ \A e \in DOMAIN runs \ {d} : runs'[e] = runs[e]
         /\ \A e \in DOMAIN dumps \ {d} : dumps'[e] = dumps[e]
         /\ dumps'[d].user_id = dumps[d].user_id

\* C26: under every interleaving of the runs of different dumps and of the
\* session changes, each thought a run inserts carries the dump the run was
\* started for and the owner of that dump, a run updates no dump but its own,
\* and no stored thought is updated or deleted.
C26_RunsWriteOnlyOwnRecords ==
  /\ []RowsCarryOwnDump
  /\ [][RunsWriteOwnRecords]_vars

\* -------------------------------------------------------------------- C27
\* C27: every stored thought, child thoughts included and whichever capture
\* path made it, names in dump_id a dump that exists.
C27_EveryThoughtHasDump ==
  \A t \in thoughts : t.dump_id \in DOMAIN dumps

\* -------------------------------------------------------------------- C28
\* The stubs a parent row carries in its subtasks column.
EmbeddedStubs(p) ==
  IF p.subtasks = NoSubtasks THEN {} ELSE {p.subtasks[m].text : m \in 1..Len(p.subtasks)}
\* The stubs stored as child rows linked to the parent by a relation row.
LinkedStubs(p) ==
  {t.thought_text : t \in {c \in thoughts :
      \E x \in relations : x.parent_thought_id = p.id /\ x.child_thought_id = c.id}}

\* C28: no stored parent thought has the same subtask stubs both embedded on
\* its own row and stored as child thoughts linked through a relation.
C28_OneSubtaskScheme ==
  \A p \in thoughts :
    p.id.sub = 0 => EmbeddedStubs(p) \cap LinkedStubs(p) = {}

\* ------------------------------------------------------ processMindDumpText
\* The function of lines 369-467, translated on its own, statement by
\* statement, so that it can be compared with processMindDump.

\* Lines 370-465: the try blocks around each await of processMindDumpText.
TextTryBlockOf(pc) ==
  CASE pc \in {"insert_subtask", "insert_relation"} -> "subtask"
    [] pc \in {"insert_thought", "embed", "insert_vector"} -> "item"
    [] OTHER -> "outer"

\* catch (error) of lines 439-441, 453-455 and 464-466.
TextRaise(r) ==
  LET f == [r EXCEPT !.failures = @ + 1]
  IN  CASE TextTryBlockOf(r.pc) = "subtask" -> NextSubtask(f)
        [] TextTryBlockOf(r.pc) = "item" -> NextItem(f)
        [] OTHER -> Finish(f, "caught")

\* Variant: the text path does not store the stubs on the parent row.
TextThoughtRow_NoStubs(d, r, thought, now) ==
  [id |-> RowId(d, r.i, 0), dump_id |-> d, user_id |-> r.currentUser,
   thought_text |-> thought.thought_text,
   type |-> thought.type,
   importance |-> thought.importance,
   sentiment |-> thought.sentiment,
   deadline |-> thought.deadline,
   resurface_at |-> parseResurfaceTiming(thought.resurface_timing, thought.deadline, now),
   subtasks |-> NoSubtasks]

\* The row of lines 392-406.
TextThoughtRow(d, r, thought, now) ==
  [id |-> RowId(d, r.i, 0), dump_id |-> d, user_id |-> r.currentUser,
   thought_text |-> thought.thought_text,
   type |-> thought.type,
   importance |-> thought.importance,
   sentiment |-> thought.sentiment,
   deadline |-> thought.deadline,
   resurface_at |-> parseResurfaceTiming(thought.resurface_timing, thought.deadline, now),
   subtasks |-> thought.subtasks]

\* The row of lines 418-428.
TextSubtaskRow(d, r, thought, subtask) ==
  [id |-> RowId(d, r.i, r.j), dump_id |-> d, user_id |-> r.currentUser,
   thought_text |-> subtask.text,
   type |-> "task",
   importance |-> thought.importance,
   sentiment |-> "neutral",
   deadline |-> thought.deadline,
   resurface_at |-> NullStr,
   subtasks |-> NoSubtasks]

\* The row of lines 433-437.
TextRelationRow(d, r) ==
  [parent_thought_id |-> RowId(d, r.i, 0),
   child_thought_id |-> RowId(d, r.i, r.j),
   relation |-> "subtask"]

\* The row of lines 448-451.
TextVectorRow(d, r) == [thought_id |-> RowId(d, r.i, 0), embedding |-> "vector"]

\* const analyzed = await analyzeWithOpenAI(text, userTimezone)
TextAnalyze(d, response) ==
  LET r == runs[d]
      a == analyzeWithOpenAI(response)
      r1 == [r EXCEPT !.analyzed = a, !.extraction = response.kind]
  IN  /\ r.path = "text"
      /\ r.pc = "analyze"
      /\ IF a.isNull \/ Len(a.thoughts) = 0
           THEN Step(d, [r1 EXCEPT !.pc = "mark_unanalyzed"])
           ELSE Step(d, [r1 EXCEPT !.pc = "get_user"])
      /\ UNCHANGED <<session, dumps, thoughts, relations, vectors>>
      /\ UNCHANGED svars

\* Line 377: update({ processed: true }), then return.
TextMarkUnanalyzed(d, outcome) ==
  LET r == Issue(runs[d], "mind_dumps", "update", [processed |-> TRUE])
      r1 == [r EXCEPT !.markCall = "processed", !.markResult = outcome]
  IN  /\ r.path = "text"
      /\ r.pc = "mark_unanalyzed"
      /\ MayFail(r, outcome)
      /\ dumps' = IF outcome = "ok"
                    THEN [dumps EXCEPT ![d].processed = TRUE]
                    ELSE dumps
      /\ IF outcome = "throw"
           THEN Step(d, TextRaise(r1))
           ELSE Step(d, Finish(Failing(r1, outcome), "extraction_failed"))
      /\ UNCHANGED <<session, thoughts, relations, vectors>>
      /\ UNCHANGED svars

\* Lines 381-382: the signed-in user is read; without one the run returns.
TextGetUser(d, outcome) ==
  LET r == runs[d]
  IN  /\ r.path = "text"
      /\ r.pc = "get_user"
      /\ MayFail(r, outcome)
      /\ IF outcome = "throw"
           THEN Step(d, TextRaise(r))
           ELSE IF session = "<null>"
             THEN Step(d, Finish(r, "no_user"))
             ELSE Step(d, NextItem([r EXCEPT !.currentUser = session, !.i = 0]))
      /\ UNCHANGED <<session, dumps, thoughts, relations, vectors>>
      /\ UNCHANGED svars

\* Lines 387-410: the resurface time, the insert of the item's thought, and
\* 'continue' on an error.
TextInsertThought(d, outcome, now) ==
  LET thought == ItemOf(runs[d])
      resurfaceAt == parseResurfaceTiming(thought.resurface_timing, thought.deadline, now)
      r0 == [runs[d] EXCEPT
               !.resolved = Append(@, [now |-> now, ret |-> resurfaceAt]),
               !.inserted = Append(@, outcome = "ok" /\ resurfaceAt # Thrown)]
      r == IF resurfaceAt = Thrown
             THEN r0
             ELSE Issue(r0, "thoughts", "insert", TextThoughtRow(d, r0, thought, now))
  IN  /\ runs[d].path = "text"
      /\ runs[d].pc = "insert_thought"
      /\ MayFail(r, outcome)
      /\ thoughts' = IF outcome = "ok" /\ resurfaceAt # Thrown
                       THEN thoughts \cup {TextThoughtRow(d, r, thought, now)}
                       ELSE thoughts
      /\ CASE resurfaceAt = Thrown -> Step(d, TextRaise(r))
           [] outcome = "throw" -> Step(d, TextRaise(r))
           [] outcome = "error" -> Step(d, NextItem([r EXCEPT !.failures = @ + 1]))
           [] OTHER ->
                IF thought.subtasks # NoSubtasks /\ Len(thought.subtasks) > 0
                  THEN Step(d, NextSubtask([r EXCEPT !.j = 0]))
                  ELSE Step(d, [r EXCEPT !.pc = "embed"])
      /\ UNCHANGED <<session, dumps, relations, vectors>>
      /\ UNCHANGED svars

\* Lines 415-431: the insert of a stub's thought.
TextInsertSubtask(d, outcome) ==
  LET thought == ItemOf(runs[d])
      r == Issue(runs[d], "thoughts", "insert",
                 TextSubtaskRow(d, runs[d], thought, thought.subtasks[runs[d].j]))
  IN  /\ runs[d].path = "text"
      /\ runs[d].pc = "insert_subtask"
      /\ MayFail(r, outcome)
      /\ thoughts' = IF outcome = "ok"
                       THEN thoughts \cup
                              {TextSubtaskRow(d, r, thought, thought.subtasks[r.j])}
                       ELSE thoughts
      /\ CASE outcome = "throw" -> Step(d, TextRaise(r))
           [] outcome = "error" -> Step(d, NextSubtask([r EXCEPT !.failures = @ + 1]))
           [] OTHER -> Step(d, [r EXCEPT !.pc = "insert_relation"])
      /\ UNCHANGED <<session, dumps, relations, vectors>>
      /\ UNCHANGED svars

\* Lines 432-438: the relation of the stub to its parent.
TextInsertRelation(d, outcome) ==
  LET r == Issue(runs[d], "thought_relations", "insert", TextRelationRow(d, runs[d]))
      f == Failing(r, outcome)
  IN  /\ r.path = "text"
      /\ r.pc = "insert_relation"
      /\ MayFail(r, outcome)
      /\ relations' = IF outcome = "ok"
                        THEN relations \cup {TextRelationRow(d, r)}
                        ELSE relations
      /\ IF outcome = "throw"
           THEN Step(d, TextRaise(r))
           ELSE Step(d, NextSubtask(f))
      /\ UNCHANGED <<session, dumps, thoughts, vectors>>
      /\ UNCHANGED svars

\* Lines 446-447: const embedding = await generateEmbedding(thought.thought_text)
TextEmbed(d, outcome) ==
  LET r == [runs[d] EXCEPT !.embedded = @ \cup {runs[d].i}]
  IN  /\ r.path = "text"
      /\ r.pc = "embed"
      /\ MayFail(r, outcome)
      /\ IF generateEmbedding(outcome) = "<null>"
           THEN Step(d, NextItem([Failing(r, outcome) EXCEPT !.embNull = @ \cup {r.i}]))
           ELSE Step(d, [r EXCEPT !.pc = "insert_vector"])
      /\ UNCHANGED <<session, dumps, thoughts, relations, vectors>>
      /\ UNCHANGED svars

\* Lines 448-451: the insert of the vector.
TextInsertVector(d, outcome) ==
  LET r == Issue(runs[d], "thought_vectors", "insert", TextVectorRow(d, runs[d]))
      f == Failing(r, outcome)
  IN  /\ r.path = "text"
      /\ r.pc = "insert_vector"
      /\ MayFail(r, outcome)
      /\ vectors' = IF outcome = "ok"
                      THEN vectors \cup {TextVectorRow(d, r)}
                      ELSE vectors
      /\ IF outcome = "throw"
           THEN Step(d, TextRaise(r))
           ELSE Step(d, NextItem(f))
      /\ UNCHANGED <<session, dumps, thoughts, relations>>
      /\ UNCHANGED svars

\* Lines 458-461: update({ processed: true, model_version: 'gpt-4o-mini-v1' })
TextMarkProcessed(d, outcome) ==
  LET r == Issue(runs[d], "mind_dumps", "update",
                 [processed |-> TRUE, model_version |-> ModelVersion])
      r1 == [r EXCEPT !.markCall = "processed+model_version", !.markResult = outcome]
  IN  /\ r.path = "text"
      /\ r.pc = "mark_processed"
      /\ MayFail(r, outcome)
      /\ dumps' = IF outcome = "ok"
                    THEN [dumps EXCEPT ![d].processed = TRUE,
                                       ![d].model_version = ModelVersion]
                    ELSE dumps
      /\ IF outcome = "throw"
           THEN Step(d, TextRaise(r1))
           ELSE Step(d, Finish(Failing(r1, outcome), "completed"))
      /\ UNCHANGED <<session, thoughts, relations, vectors>>
      /\ UNCHANGED svars

\* ------------------------------------------------ the two paths compared
\* A voice note and a journal entry are processed one after the other, and
\* the collaborators give both runs the same answers: the same response of
\* the model, and the same outcome of each call, which is "ok" except at one
\* call of the run at most.
VoiceDump == "d1"
TextDump == "d2"
PathDumps == {VoiceDump, TextDump}
PathResponses ==
  {[kind |-> k, thoughts |-> <<>>] : k \in {"api_error", "invalid_json"}}
    \cup {[kind |-> "ok", thoughts |-> q] :
            q \in SeqsUpTo({PlanWedding, TakePills, Banana}, MaxItems)}
RunCalls == {"mark_unanalyzed", "get_user", "mark_processed"}
ItemCalls == {"insert_thought", "embed", "insert_vector"}
StubCalls == {"insert_subtask", "insert_relation"}
FailPoints ==
  {NoFailure}
    \cup {[pc |-> c, i |-> 0, j |-> 0, how |-> h] :
            c \in RunCalls, h \in {"error", "throw"}}
    \cup {[pc |-> c, i |-> k, j |-> 0, how |-> h] :
            c \in ItemCalls, k \in 1..MaxItems, h \in {"error", "throw"}}
    \cup {[pc |-> c, i |-> k, j |-> m, how |-> h] :
            c \in StubCalls, k \in 1..MaxItems, m \in 1..MaxSubtasks,
            h \in {"error", "throw"}}

\* The outcome of the call the run is about to make.
ReplyAt(r) ==
  LET f == replies.fail
  IN  IF /\ f.pc = r.pc
         /\ \/ f.pc \in RunCalls
            \/ f.pc \in ItemCalls /\ f.i = r.i
            \/ f.pc \in StubCalls /\ f.i = r.i /\ f.j = r.j
        THEN f.how
        ELSE "ok"
UserReplyAt(r) == IF ReplyAt(r) = "throw" THEN "throw" ELSE "ok"
EmbeddingReplyAt(r) == IF ReplyAt(r) = "ok" THEN "ok" ELSE "api_error"

InitPaths ==
  /\ session \in Users
  /\ dumps = [x \in {} |-> NewDump("u1", "text", "journal")]
  /\ thoughts = {}
  /\ relations = {}
  /\ vectors = {}
  /\ runs = [d \in PathDumps |-> IdleRun]
  /\ replies \in [response : PathResponses, fail : FailPoints]
  /\ ScheduleIdle
  /\ ResolverIdle
  /\ ConfidenceIdle
  /\ CalendarIdle
  /\ SmsIdle

NextPaths ==
  \/ saveVoiceNote(VoiceDump, TRUE, "ok")
  \/ Transcribe(VoiceDump, "ok")
  \/ UpdateRawText(VoiceDump, "ok")
  \/ Analyze(VoiceDump, replies.response)
  \/ MarkUnanalyzed(VoiceDump, ReplyAt(runs[VoiceDump]))
  \/ GetUser(VoiceDump, UserReplyAt(runs[VoiceDump]))
  \/ \E now \in PipelineNows : InsertThought(VoiceDump, ReplyAt(runs[VoiceDump]), now)
  \/ InsertSubtask(VoiceDump, ReplyAt(runs[VoiceDump]))
  \/ InsertRelation(VoiceDump, ReplyAt(runs[VoiceDump]))
  \/ Embed(VoiceDump, EmbeddingReplyAt(runs[VoiceDump]))
  \/ InsertVector(VoiceDump, ReplyAt(runs[VoiceDump]))
  \/ MarkProcessed(VoiceDump, ReplyAt(runs[VoiceDump]))
  \/ (runs[VoiceDump].pc = "done" /\ handleSaveJournal(TextDump, "ok"))
  \/ TextAnalyze(TextDump, replies.response)
  \/ TextMarkUnanalyzed(TextDump, ReplyAt(runs[TextDump]))
  \/ TextGetUser(TextDump, UserReplyAt(runs[TextDump]))
  \/ \E now \in PipelineNows : TextInsertThought(TextDump, ReplyAt(runs[TextDump]), now)
  \/ TextInsertSubtask(TextDump, ReplyAt(runs[TextDump]))
  \/ TextInsertRelation(TextDump, ReplyAt(runs[TextDump]))
  \/ TextEmbed(TextDump, EmbeddingReplyAt(runs[TextDump]))
  \/ TextInsertVector(TextDump, ReplyAt(runs[TextDump]))
  \/ TextMarkProcessed(TextDump, ReplyAt(runs[TextDump]))

SpecPaths == InitPaths /\ [][NextPaths]_vars

\* -------------------------------------------------------------------- C29
\* A row or a call with the id of its dump left out.
NoDump(id) == [id EXCEPT !.dump = "any"]
RowNoDump(t) == [t EXCEPT !.dump_id = "any", !.id = NoDump(@)]
CallNoDump(w) ==
  CASE w.table = "thoughts" -> [w EXCEPT !.row = RowNoDump(@)]
    [] w.table = "thought_relations" ->
         [w EXCEPT !.row.parent_thought_id = NoDump(@),
                   !.row.child_thought_id = NoDump(@)]
    [] w.table = "thought_vectors" -> [w EXCEPT !.row.thought_id = NoDump(@)]
    [] OTHER -> w
\* The calls of a run from the extraction on: the inserts and the update that
\* sets processed.
IsRawTextUpdate(w) == w.table = "mind_dumps" /\ "raw_text" \in DOMAIN w.row
CallsAfterTranscription(d) ==
  LET q == SelectSeq(runs[d].writes, LAMBDA w : ~IsRawTextUpdate(w))
  IN  [k \in 1..Len(q) |-> CallNoDump(q[k])]
BothEnded == runs[VoiceDump].pc = "done" /\ runs[TextDump].pc = "done"

\* C29: with the same extracted content and the same outcome of every call,
\* the voice run, from its transcript on, and the text run issue the same
\* calls to the store in the same order with the same field values, and
\* leave the same rows and the same processed flag and model version.
C29_VoiceAndTextWriteTheSame ==
  BothEnded =>
    /\ CallsAfterTranscription(VoiceDump) = CallsAfterTranscription(TextDump)
    /\ {RowNoDump(t) : t \in RowsOf(VoiceDump)} = {RowNoDump(t) : t \in RowsOf(TextDump)}
    /\ Cardinality(RelationsOf(VoiceDump)) = Cardinality(RelationsOf(TextDump))
    /\ Cardinality(VectorsOf(VoiceDump)) = Cardinality(VectorsOf(TextDump))
    /\ dumps[VoiceDump].processed = dumps[TextDump].processed
    /\ dumps[VoiceDump].model_version = dumps[TextDump].model_version
    /\ runs[VoiceDump].end = runs[TextDump].end

C29_Witness ==
  /\ BothEnded
  /\ replies.fail.pc = "insert_subtask"
  /\ replies.fail.i = 1
  /\ Len(ItemsOf(TextDump)) = 2
  /\ HasSubtasks(ItemsOf(TextDump)[1])
  /\ Len(CallsAfterTranscription(TextDump)) >= 6
  /\ runs[TextDump].failures = 1
  /\ runs[VoiceDump].failures = 1
  /\ dumps[TextDump].processed = TRUE

\* -------------------------------------------------------------------- C30
\* The inserts into thought_vectors a run has issued.
VectorCalls(d) == SelectSeq(runs[d].writes, LAMBDA w : w.table = "thought_vectors")

\* Every vector belongs to a stored top-level thought, and no run asks twice
\* for a vector of the same thought.
VectorsOfTopLevelRows ==
  /\ \A v \in vectors :
       /\ v.thought_id.sub = 0
       /\ v.thought_id \in ThoughtIds
       /\ Cardinality({u \in vectors : u.thought_id = v.thought_id}) = 1
  /\ \A d \in DOMAIN runs :
       \A k \in 1..Len(VectorCalls(d)), l \in 1..Len(VectorCalls(d)) :
         /\ VectorCalls(d)[k].row.thought_id.sub = 0
         /\ k # l => VectorCalls(d)[k].row.thought_id # VectorCalls(d)[l].row.thought_id

\* A vector is written for a thought its run has stored before.
VectorAfterThought ==
  \A v \in vectors' \ vectors :
    /\ v.thought_id \in ThoughtIds
    /\ runs'[v.thought_id.dump] # runs[v.thought_id.dump]
    /\ RowAt(v.thought_id).dump_id = v.thought_id.dump

\* C30: each vector references a top-level thought that the same run stored
\* earlier, no thought has more than one vector, and no vector is made for a
\* child thought of a subtask.
C30_VectorsOfTopLevelThoughts ==
  /\ []VectorsOfTopLevelRows
  /\ [][VectorAfterThought]_vars

C30_Witness ==
  \E d \in Ended :
    /\ Cardinality(VectorsOf(d)) = 2
    /\ Cardinality(ChildRows \cap RowsOf(d)) >= 1
    /\ Len(VectorCalls(d)) = 2
    /\ \A v \in VectorsOf(d) : HasRow(v.thought_id)

====
